---- MODULE Spec2Model ----
(***************************************************************************)
(* A model of dysql: the list-template expander of query_utils.py and the  *)
(* decorators of connections.py.  Text is modelled as sequences of         *)
(* one-character strings so that the regular expression, str.replace,      *)
(* str.strip and str.split are computed as Python computes them.           *)
(***************************************************************************)
EXTENDS Integers, Sequences, FiniteSets, TLC

\* ------------------------------------------------------------------------
\* Bounds of the model
\* ------------------------------------------------------------------------
\* longest value list handed to a template generator
MaxLen == 3
\* widest tuple inside a value list
MaxWidth == 2
\* most segments (a token, a space or a word) in a query text
MaxSegs == 3
\* most tokens in a query text
MaxTokens == 2
\* most segments in a query text built around one token and its padding
MaxPadSegs == 6

\* most QueryData a generator function yields
MaxYield == 2

\* ------------------------------------------------------------------------
\* Python values: None, int, str, list, tuple
\* ------------------------------------------------------------------------
PyNone == [t |-> "none", v |-> <<>>]

PyInt(n) == [t |-> "int", v |-> n]

PyStr(s) == [t |-> "str", v |-> s]

PyList(xs) == [t |-> "list", v |-> xs]

PyTuple(xs) == [t |-> "tuple", v |-> xs]

\* Python truthiness, as used by `if not values`
Truthy(x) ==
    CASE x.t = "none" -> FALSE
      [] x.t = "int" -> x.v # 0
      [] OTHER -> Len(x.v) > 0

\* isinstance(x, (list, tuple))
IsListOrTuple(x) == x.t \in {"list", "tuple"}

\* a dict is a function from names to values
EmptyDict == [k \in {} |-> PyNone]

\* dict.update: the entries of e replace those of d
DictUpdate(d, e) ==
    [k \in (DOMAIN d) \cup (DOMAIN e) |-> IF k \in DOMAIN e THEN e[k] ELSE d[k]]

\* ------------------------------------------------------------------------
\* Text helpers
\* ------------------------------------------------------------------------
Digits == <<"0", "1", "2", "3", "4", "5", "6", "7", "8", "9">>

\* str(index) for a non-negative integer
RECURSIVE Str(_)
Str(n) ==
    IF n < 10 THEN <<Digits[n + 1]>>
    ELSE Str(n \div 10) \o <<Digits[(n % 10) + 1]>>

\* s[i:] starts with p (i is 1-based)
StartsWithAt(s, i, p) ==
    /\ i + Len(p) - 1 <= Len(s)
    /\ SubSeq(s, i, i + Len(p) - 1) = p

\* str.startswith
StartsWith(s, p) == StartsWithAt(s, 1, p)

\* the least element of a non-empty set of integers
Least(S) == CHOOSE j \in S : \A k \in S : j <= k

\* str.find(p, i): the first occurrence of p in s at or after s[i], or
\* Len(s) + 1
Find(s, i, p) ==
    LET at == {j \in i..Len(s) : StartsWithAt(s, j, p)}
    IN IF at = {} THEN Len(s) + 1 ELSE Least(at)

\* str.replace(old, new) with a non-empty old: every non-overlapping
\* occurrence, scanning left to right
RECURSIVE ReplaceFrom(_, _, _, _)
ReplaceFrom(s, i, old, new) ==
    LET j == Find(s, i, old)
    IN  IF j > Len(s) THEN SubSeq(s, i, Len(s))
        ELSE SubSeq(s, i, j - 1) \o new \o ReplaceFrom(s, j + Len(old), old, new)

Replace(s, old, new) == ReplaceFrom(s, 1, old, new)

\* str.join
RECURSIVE Join(_, _)
Join(sep, parts) ==
    IF Len(parts) = 0 THEN <<>>
    ELSE IF Len(parts) = 1 THEN parts[1]
    ELSE parts[1] \o sep \o Join(sep, Tail(parts))

\* str.split(sep) with a non-empty sep
RECURSIVE SplitFrom(_, _, _)
SplitFrom(s, i, sep) ==
    LET j == Find(s, i, sep)
    IN  IF j > Len(s) THEN <<SubSeq(s, i, Len(s))>>
        ELSE <<SubSeq(s, i, j - 1)>> \o SplitFrom(s, j + Len(sep), sep)

Split(s, sep) == SplitFrom(s, 1, sep)

\* a strip that strips nothing
StripNothing(s) == s

\* str.strip, for text whose only whitespace is the space
Strip(s) ==
    LET kept == {j \in 1..Len(s) : s[j] # " "}
    IN IF kept = {} THEN <<>>
       ELSE SubSeq(s, Least(kept), CHOOSE j \in kept : \A k \in kept : k <= j)

\* the character class [A-Za-z_]
NameChars ==
    {"a", "b", "c", "d", "e", "f", "g", "h", "i", "j", "k", "l", "m",
     "n", "o", "p", "q", "r", "s", "t", "u", "v", "w", "x", "y", "z",
     "A", "B", "C", "D", "E", "F", "G", "H", "I", "J", "K", "L", "M",
     "N", "O", "P", "Q", "R", "S", "T", "U", "V", "W", "X", "Y", "Z", "_"}

\* length of the longest run of characters of class cls starting at s[i]
RunLen(s, i, cls) ==
    LET outside == {j \in i..Len(s) : s[j] \notin cls}
    IN IF outside = {} THEN Len(s) + 1 - i ELSE Least(outside) - i

\* ------------------------------------------------------------------------
\* Words of the source as text
\* ------------------------------------------------------------------------
W_in == <<"i", "n">>

W_not_in == <<"n", "o", "t", "_", "i", "n">>

W_values == <<"v", "a", "l", "u", "e", "s">>

W_dunder == <<"_", "_">>

\* ------------------------------------------------------------------------
\* TemplateGenerators
\* ------------------------------------------------------------------------
\* result of a call: exc is "none" when the call returned
Returned(q, p) == [exc |-> "none", keys |-> <<>>, query |-> q, params |-> p, params_none |-> FALSE]

ReturnedNoParams(q) == [exc |-> "none", keys |-> <<>>, query |-> q, params |-> EmptyDict, params_none |-> TRUE]

Raised(e, ks) == [exc |-> e, keys |-> ks, query |-> <<>>, params |-> EmptyDict, params_none |-> TRUE]

\* re.sub('[, ()]', '', key_name)
StripMultiChars(s) ==
    LET Kept(c) == c \notin {",", " ", "(", ")"} IN SelectSeq(s, Kept)

\* legacy_key is <<>> when the caller passes none
get_key(key, legacy_key, is_multi_column) ==
    LET key_name == IF Len(legacy_key) > 0 THEN legacy_key ELSE key
    IN IF is_multi_column THEN StripMultiChars(key_name) ELSE key_name

\* the parameterized keys of a list or tuple, in order
InnerKeys(key, values) ==
    IF ~IsListOrTuple(values) THEN <<key>>
    ELSE [i \in 1..Len(values.v) |-> Replace(key, <<".">>, <<"_">>) \o <<"_">> \o Str(i - 1)]

parameterize_inner_list(key, values) ==
    LET ks == InnerKeys(key, values)
        pv == IF ~IsListOrTuple(values)
              THEN [k \in {key} |-> values]
              ELSE [k \in {ks[i] : i \in 1..Len(ks)} |->
                       values.v[CHOOSE i \in 1..Len(ks) :
                                   /\ ks[i] = k
                                   /\ \A j \in 1..Len(ks) : ks[j] = k => j <= i]]
    IN Returned(<<"(", " ", ":">> \o Join(<<",", " ", ":">>, ks) \o <<" ", ")">>, pv)

\* the loop of _parameterize_list from element i on; acc_keys and acc_params
\* are param_inner_keys and param_values
RECURSIVE ParameterizeLoop(_, _, _, _, _)
ParameterizeLoop(key, values, i, acc_keys, acc_params) ==
    IF i > Len(values.v)
    THEN Returned(Join(<<",", " ">>, acc_keys), acc_params)
    ELSE IF values.v[i].t = "tuple" \/ StartsWith(key, W_values)
    THEN LET inner == parameterize_inner_list(key \o <<"_">> \o Str(i - 1), values.v[i])
         IN ParameterizeLoop(key, values, i + 1,
                             Append(acc_keys, inner.query),
                             DictUpdate(acc_params, inner.params))
    ELSE parameterize_inner_list(key, values)

parameterize_list(key, values) ==
    IF values.t = "int" THEN Raised("TypeError", <<>>)
    ELSE LET vs == IF values.t = "str" THEN PyTuple(<<values>>) ELSE values
         IN ParameterizeLoop(key, vs, 1, <<>>, EmptyDict)

\* in_column and not_in_column differ in the operator word and the constant
ColumnTemplate(op, empty, name, values, legacy_key, is_multi_column) ==
    IF ~Truthy(values) THEN ReturnedNoParams(empty)
    ELSE LET key_name == get_key(name, legacy_key, is_multi_column)
             r == parameterize_list(key_name, values)
             keys == IF is_multi_column THEN <<"(">> \o r.query \o <<")">> ELSE r.query
         IN IF r.exc # "none" THEN r
            ELSE Returned(name \o op \o keys, r.params)

in_column(name, values, legacy_key, is_multi_column) ==
    ColumnTemplate(<<" ", "I", "N", " ">>, <<"1", " ", "<", ">", " ", "1">>,
                   name, values, legacy_key, is_multi_column)

not_in_column(name, values, legacy_key, is_multi_column) ==
    ColumnTemplate(<<" ", "N", "O", "T", " ", "I", "N", " ">>, <<"1", " ", "=", " ", "1">>,
                   name, values, legacy_key, is_multi_column)

values(name, vals, legacy_key) ==
    IF ~Truthy(vals) THEN Raised("ListTemplateException", <<name>>)
    ELSE LET key_name == get_key(name, legacy_key, FALSE)
             r == parameterize_list(key_name, vals)
         IN IF r.exc # "none" THEN r
            ELSE Returned(<<"V", "A", "L", "U", "E", "S", " ">> \o r.query, r.params)

\* get_template followed by the call template_to_use(name, values, legacy_key)
ApplyTemplate(kind, name, vals, legacy_key) ==
    CASE kind = W_in -> in_column(name, vals, legacy_key, FALSE)
      [] kind = W_not_in -> not_in_column(name, vals, legacy_key, FALSE)
      [] kind = W_values -> values(name, vals, legacy_key)
      [] OTHER -> Raised("TypeError", <<>>)

\* ------------------------------------------------------------------------
\* LIST_TEMPLATE_REGEX and the query assembler
\* ------------------------------------------------------------------------
NoMatch == [ok |-> FALSE, first |-> 0, open |-> 0, close |-> 0, g0 |-> <<>>, kind |-> <<>>, table |-> <<>>, column |-> <<>>, last |-> 0]

\* the match of (in|not_in|values)__([A-Za-z_]+\.)?([A-Za-z_]+)} for one
\* keyword, the brace being at s[b] and the match starting at s[i]
MatchKind(s, i, b, kind) ==
    LET p == b + 1 + Len(kind) + 2
        r1 == RunLen(s, p, NameChars)
        q == p + r1 + 1
        r2 == RunLen(s, q, NameChars)
    IN  IF ~StartsWithAt(s, b + 1, kind \o W_dunder) \/ r1 = 0 \/ p + r1 > Len(s)
        THEN NoMatch
        ELSE IF s[p + r1] = "}"
        THEN LET e == p + r1 + RunLen(s, p + r1 + 1, {" "})
             IN [ok |-> TRUE, first |-> i, open |-> b, close |-> p + r1,
                 g0 |-> SubSeq(s, i, e), kind |-> kind, table |-> <<>>,
                 column |-> SubSeq(s, p, p + r1 - 1), last |-> e]
        ELSE IF s[p + r1] = "." /\ r2 > 0 /\ q + r2 <= Len(s) /\ s[q + r2] = "}"
        THEN LET e == q + r2 + RunLen(s, q + r2 + 1, {" "})
             IN [ok |-> TRUE, first |-> i, open |-> b, close |-> q + r2,
                 g0 |-> SubSeq(s, i, e), kind |-> kind,
                 table |-> SubSeq(s, p, p + r1),
                 column |-> SubSeq(s, q, q + r2 - 1), last |-> e]
        ELSE NoMatch

\* the match of LIST_TEMPLATE_REGEX that starts at s[i], if there is one:
\* ( +)? is greedy, so the leading group is the whole run of spaces
MatchAt(s, i) ==
    LET b == i + RunLen(s, i, {" "})
    IN  IF b > Len(s) \/ s[b] # "{" THEN NoMatch
        ELSE IF MatchKind(s, i, b, W_in).ok THEN MatchKind(s, i, b, W_in)
        ELSE IF MatchKind(s, i, b, W_not_in).ok THEN MatchKind(s, i, b, W_not_in)
        ELSE MatchKind(s, i, b, W_values)

\* re.findall(LIST_TEMPLATE_REGEX, s): the non-overlapping matches from s[i] on
RECURSIVE FindAllFrom(_, _)
FindAllFrom(s, i) ==
    LET starts == {j \in i..Len(s) : MatchAt(s, j).ok}
    IN  IF starts = {} THEN <<>>
        ELSE <<MatchAt(s, Least(starts))>> \o FindAllFrom(s, MatchAt(s, Least(starts)).last + 1)

FindAll(s) == FindAllFrom(s, 1)

\* key = f'{groups[2]}__{groups[3] if groups[3] else ""}{groups[4]}'
KeyOf(m) == m.kind \o W_dunder \o m.table \o m.column

\* template_params.get(key) is None, for template_params = [none, d]
ParamMissing(template_params, key) ==
    \/ template_params.none
    \/ key \notin DOMAIN template_params.d
    \/ template_params.d[key].t = "none"

\* the keys the validation of one match reports missing
MissingKeys(template_params, key) ==
    IF ParamMissing(template_params, key) THEN <<key>>
    ELSE IF key = W_values /\ Len(template_params.d[key].v) = 0 THEN <<key>>
    ELSE <<>>

\* the loop of __validate_keys_clean_query over the matches ms[i..]
RECURSIVE ValidateLoop(_, _, _, _, _)
ValidateLoop(ms, i, query, template_params, validated_keys) ==
    IF i > Len(ms) THEN [exc |-> "none", keys |-> validated_keys, query |-> query]
    ELSE LET key == KeyOf(ms[i])
             missing_keys == MissingKeys(template_params, key)
         IN IF Len(missing_keys) > 0
            THEN [exc |-> "ListTemplateException", keys |-> missing_keys, query |-> <<>>]
            ELSE ValidateLoop(ms, i + 1, Replace(query, ms[i].g0, Strip(ms[i].g0)),
                              template_params, Append(validated_keys, key))

validate_keys_clean_query(query, template_params) ==
    ValidateLoop(FindAll(query), 1, query, template_params, <<>>)

\* the expansion loop with the replacement of the token moved under the
\* test of the parameter map: a token whose fragment has no parameters stays
RECURSIVE ExpandLoopUnderTest(_, _, _, _, _)
ExpandLoopUnderTest(validated_keys, i, query, params, template_params) ==
    IF i > Len(validated_keys) THEN Returned(query, params)
    ELSE LET key == validated_keys[i]
             parts == Split(key, W_dunder)
         IN IF Len(parts) # 2 THEN Raised("ValueError", <<>>)
            ELSE LET r == ApplyTemplate(parts[1], parts[2], template_params.d[key], key)
                     query_key == <<"{">> \o key \o <<"}">>
                 IN IF r.exc # "none" THEN r
                    ELSE IF r.params_none
                    THEN ExpandLoopUnderTest(validated_keys, i + 1, query, params,
                                             template_params)
                    ELSE ExpandLoopUnderTest(validated_keys, i + 1,
                                             Replace(query, query_key,
                                                     <<" ">> \o r.query \o <<" ">>),
                                             DictUpdate(params, r.params), template_params)

\* the expansion loop of get_query_data over validated_keys[i..]
RECURSIVE ExpandLoop(_, _, _, _, _)
ExpandLoop(validated_keys, i, query, params, template_params) ==
    IF i > Len(validated_keys) THEN Returned(query, params)
    ELSE LET key == validated_keys[i]
             parts == Split(key, W_dunder)
         IN IF Len(parts) # 2 THEN Raised("ValueError", <<>>)
            ELSE LET r == ApplyTemplate(parts[1], parts[2], template_params.d[key], key)
                     query_key == <<"{">> \o key \o <<"}">>
                 IN IF r.exc # "none" THEN r
                    ELSE ExpandLoop(validated_keys, i + 1,
                                    Replace(query, query_key, <<" ">> \o r.query \o <<" ">>),
                                    IF r.params_none THEN params ELSE DictUpdate(params, r.params),
                                    template_params)

\* a shape check that lets every value through
validate_nothing(data) == "none"

\* __validate_query_and_params: the error raised for a value that is not a
\* QueryData, "none" for a QueryData
validate_query_and_params(data) ==
    IF ~data.is_query_data THEN "QueryDataError" ELSE "none"

\* get_query_data with the two merges in the other order: the literal map
\* put in after the generated maps
get_query_data_literal_last(data) ==
    IF validate_query_and_params(data) # "none"
    THEN Raised(validate_query_and_params(data), <<>>)
    ELSE LET v == validate_keys_clean_query(data.query, data.template_params)
             params == IF data.query_params.none THEN EmptyDict ELSE data.query_params.d
             r == ExpandLoop(v.keys, 1, v.query, EmptyDict, data.template_params)
         IN IF v.exc # "none" THEN Raised(v.exc, v.keys)
            ELSE IF r.exc # "none" THEN r
            ELSE Returned(r.query, DictUpdate(r.params, params))

\* data = [is_query_data, query, query_params = [none, d], template_params = [none, d]]
get_query_data(data) ==
    IF validate_query_and_params(data) # "none"
    THEN Raised(validate_query_and_params(data), <<>>)
    ELSE LET v == validate_keys_clean_query(data.query, data.template_params)
             params == IF data.query_params.none THEN EmptyDict ELSE data.query_params.d
         IN IF v.exc # "none" THEN Raised(v.exc, v.keys)
            ELSE ExpandLoop(v.keys, 1, v.query, params, data.template_params)

QueryData(query, query_params, template_params) ==
    [is_query_data |-> TRUE, query |-> query,
     query_params |-> query_params, template_params |-> template_params]

\* a value that is not a QueryData: a str holding the text
NotQueryData(text) ==
    [is_query_data |-> FALSE, query |-> text,
     query_params |-> [none |-> TRUE, d |-> EmptyDict],
     template_params |-> [none |-> TRUE, d |-> EmptyDict]]

\* ------------------------------------------------------------------------
\* State
\* ------------------------------------------------------------------------
\* call:    the invocation under way, with its arguments
\* ret:     what the invocation returned or raised, NotCalled before it ran
\* pc:      where a decorated call stands, "none" outside a decorated call;
\*          for a key-value mapper "constructed" once its constructor has
\*          returned and "done" once it has raised or map_records has ended
\* log:     what a decorated call has done on the engine's connection, in order
\* yielded: how many QueryData of the decorated function have been handled
VARIABLES call, ret, pc, log, yielded

vars == <<call, ret, pc, log, yielded>>

NotCalled == [exc |-> "pending", keys |-> <<>>, query |-> <<>>, params |-> EmptyDict, params_none |-> TRUE]

\* a call that goes through no decorator has no connection
NoConnection == pc = "none" /\ log = <<>> /\ yielded = 0

\* ------------------------------------------------------------------------
\* Calls of the template generators on their own
\* ------------------------------------------------------------------------
Scalars == {PyInt(1), PyInt(2)}

SeqsUpTo(S, lo, hi) == UNION {[1..n -> S] : n \in lo..hi}

ScalarLists == {PyList(xs) : xs \in SeqsUpTo(Scalars, 0, MaxLen)}

TuplesOfWidth(w) == {PyTuple(xs) : xs \in [1..w -> Scalars]}

TupleLists ==
    UNION {{PyList(rows) : rows \in SeqsUpTo(TuplesOfWidth(w), 1, MaxLen)} : w \in 1..MaxWidth}

TemplateValues == ScalarLists \cup TupleLists \cup {PyNone, PyStr(<<"T">>)}

\* a plain column, a qualified column, a column whose name begins with the
\* word values, and a key as get_query_data passes it
TemplateNames ==
    {<<"c">>, <<"t", ".", "c">>, W_values \o <<"_", "c">>, W_values \o W_dunder \o <<"v">>}

TemplateCalls ==
    [fn : {"in_column", "not_in_column", "values"}, name : TemplateNames, values : TemplateValues]

InitTemplate ==
    /\ call \in TemplateCalls
    /\ ret = NotCalled
    /\ NoConnection

CallInColumn ==
    /\ call.fn = "in_column"
    /\ ret = NotCalled
    /\ ret' = in_column(call.name, call.values, <<>>, FALSE)
    /\ UNCHANGED <<call, pc, log, yielded>>

CallNotInColumn ==
    /\ call.fn = "not_in_column"
    /\ ret = NotCalled
    /\ ret' = not_in_column(call.name, call.values, <<>>, FALSE)
    /\ UNCHANGED <<call, pc, log, yielded>>

CallValues ==
    /\ call.fn = "values"
    /\ ret = NotCalled
    /\ ret' = values(call.name, call.values, <<>>)
    /\ UNCHANGED <<call, pc, log, yielded>>

NextTemplate == CallInColumn \/ CallNotInColumn \/ CallValues

SpecTemplate == InitTemplate /\ [][NextTemplate]_vars

\* ------------------------------------------------------------------------
\* Calls of get_query_data
\* ------------------------------------------------------------------------
Token(kind, table, column) == <<"{">> \o kind \o W_dunder \o table \o column \o <<"}">>

TextSegs == {<<"w">>, <<" ">>}

RECURSIVE Flatten(_)
Flatten(segs) == IF Len(segs) = 0 THEN <<>> ELSE segs[1] \o Flatten(Tail(segs))

Absent == [t |-> "absent", v |-> <<>>]

NoDict == [none |-> TRUE, d |-> EmptyDict]

Dict(d) == [none |-> FALSE, d |-> d]

ScalarsUpTo(n) == PyList([i \in 1..n |-> PyInt(i)])

TwoTuples == PyList(<<PyTuple(<<PyInt(1), PyInt(2)>>), PyTuple(<<PyInt(2), PyInt(1)>>)>>)

Bind(tok, vals) == {[text |-> tok, token |-> TRUE, param |-> v] : v \in vals}

\* the tokens a query text is built from, each with what template_params
\* holds for its key: nothing (Absent), None, an empty list, a list of
\* scalars or a list of tuples
TokenSegs ==
    Bind(Token(W_not_in, <<>>, <<"c">>), {Absent, PyList(<<>>), ScalarsUpTo(MaxLen)})
    \cup Bind(Token(W_in, <<"t", ".">>, <<"c">>), {PyNone, PyList(<<>>), ScalarsUpTo(MaxLen)})
    \cup Bind(Token(W_in, <<>>, <<"t", "_", "c">>), {ScalarsUpTo(1), TwoTuples})
    \cup Bind(Token(W_values, <<>>, <<"v">>), {Absent, PyList(<<>>), ScalarsUpTo(MaxLen), TwoTuples})
    \cup Bind(Token(W_in, <<>>, <<"a", "_", "_", "b">>), {PyList(<<>>), ScalarsUpTo(1)})

PlainSegs == {[text |-> t, token |-> FALSE, param |-> Absent] : t \in TextSegs}

TokensOf(segs) == {i \in 1..Len(segs) : segs[i].token}

\* template_params is a dict: a token that occurs twice has one parameter
SegSeqs ==
    {segs \in SeqsUpTo(TokenSegs \cup PlainSegs, 0, MaxSegs) :
        /\ Cardinality(TokensOf(segs)) <= MaxTokens
        /\ \A i, j \in TokensOf(segs) : segs[i].text = segs[j].text => segs[i] = segs[j]}

\* the template key a token names: the token without its braces
KeyOfToken(tok) == SubSeq(tok, 2, Len(tok) - 1)

TemplateDictOf(segs) ==
    LET present == {i \in TokensOf(segs) : segs[i].param # Absent}
    IN [k \in {KeyOfToken(segs[i].text) : i \in present} |->
           segs[CHOOSE i \in present : KeyOfToken(segs[i].text) = k].param]

\* QueryData(template_params=None) and QueryData(template_params={}) both
\* occur when no key is given a parameter
TemplateParamsFor(segs) ==
    IF DOMAIN TemplateDictOf(segs) = {} THEN {NoDict, Dict(EmptyDict)}
    ELSE {Dict(TemplateDictOf(segs))}

\* a literal map that names a generated parameter, in__t_c_0, and a free one
LiteralValue == PyInt(9)

LiteralDict ==
    [k \in {W_in \o W_dunder \o <<"t", "_", "c", "_", "0">>, <<"x">>} |-> LiteralValue]

QueryParamsChoices == {NoDict, Dict(LiteralDict)}

QueryCall(segs, qp, tp) ==
    [fn |-> "get_query_data",
     data |-> QueryData(Flatten([i \in 1..Len(segs) |-> segs[i].text]), qp, tp)]

InitQuery ==
    /\ \E segs \in SegSeqs :
          \E qp \in QueryParamsChoices, tp \in TemplateParamsFor(segs) :
             call = QueryCall(segs, qp, tp)
    /\ ret = NotCalled
    /\ NoConnection

CallGetQueryData ==
    /\ call.fn = "get_query_data"
    /\ ret = NotCalled
    /\ ret' = get_query_data(call.data)
    /\ UNCHANGED <<call, pc, log, yielded>>

NextQuery == CallGetQueryData

SpecQuery == InitQuery /\ [][NextQuery]_vars

\* ------------------------------------------------------------------------
\* Calls of get_query_data on texts that repeat one token with varying padding
\* ------------------------------------------------------------------------
PadToken == Token(W_in, <<"t", ".">>, <<"c">>)

PadSegSeqs ==
    {segs \in SeqsUpTo(TextSegs \cup {PadToken}, 1, MaxPadSegs) :
        \E i \in 1..Len(segs) : segs[i] = PadToken}

PadParams ==
    Dict([k \in {W_in \o W_dunder \o <<"t", ".", "c">>} |-> PyList(<<PyInt(1), PyInt(2)>>)])

InitPad ==
    /\ \E segs \in PadSegSeqs :
          call = [fn |-> "get_query_data", data |-> QueryData(Flatten(segs), NoDict, PadParams)]
    /\ ret = NotCalled
    /\ NoConnection

SpecPad == InitPad /\ [][NextQuery]_vars

\* ------------------------------------------------------------------------
\* Decorated calls: sqlquery, sqlexists and sqlupdate on a connection
\* ------------------------------------------------------------------------
\* one thing done on the connection
Event(ev, query, params) == [ev |-> ev, query |-> query, params |-> params]

Did(ev) == Event(ev, <<>>, EmptyDict)

\* execute_query: the statement and its parameters go to the connection
ExecuteQuery(lg, query, params) == Append(lg, Event("execute", query, params))

FK_CHECKS_0 == <<"S", "E", "T", " ", "F", "O", "R", "E", "I", "G", "N", "_", "K", "E", "Y", "_", "C", "H", "E", "C", "K", "S", "=", "0">>

FK_CHECKS_1 == <<"S", "E", "T", " ", "F", "O", "R", "E", "I", "G", "N", "_", "K", "E", "Y", "_", "C", "H", "E", "C", "K", "S", "=", "1">>

SelectExists == <<"S", "E", "L", "E", "C", "T", " ", "E", "X", "I", "S", "T", "S">>

SelectOneWhereExists == <<"S", "E", "L", "E", "C", "T", " ", "1", " ", "W", "H", "E", "R", "E", " ", "E", "X", "I", "S", "T", "S">>

\* str.lstrip, for text whose only whitespace is the space
LStrip(s) ==
    LET kept == {j \in 1..Len(s) : s[j] # " "}
    IN IF kept = {} THEN <<>> ELSE SubSeq(s, Least(kept), Len(s))

\* the statement a decorator executes for the text get_query_data returned
StatementOf(fn, query) ==
    IF fn # "sqlexists" THEN query
    ELSE LET q == LStrip(query)
         IN IF StartsWith(q, SelectExists) THEN q
            ELSE SelectExists \o <<" ", "(", " ">> \o q \o <<" ", ")">>

\* conn_manager.execute_query(query, params) when get_query_data returned r,
\* nothing when it raised
ExecuteResult(fn, lg, r) ==
    IF r.exc # "none" THEN [exc |-> r.exc, keys |-> r.keys, log |-> lg]
    ELSE [exc |-> "none", keys |-> <<>>,
          log |-> ExecuteQuery(lg, StatementOf(fn, r.query), r.params)]

\* the handling of one QueryData with the statement sent before the data is
\* looked at
HandleDataSendFirst(fn, lg, data) ==
    [exc |-> get_query_data(data).exc, keys |-> <<>>,
     log |-> ExecuteQuery(lg, StatementOf(fn, data.query), EmptyDict)]

\* query, params = get_query_data(data); conn_manager.execute_query(query, params)
HandleData(fn, lg, data) == ExecuteResult(fn, lg, get_query_data(data))

\* what a decorated call returns to its caller
Completed == ReturnedNoParams(<<>>)

\* what scalar() gives for the statement of a sqlexists: the first column
\* of the first row, None when there is no row
ScalarResults == {PyInt(0), PyInt(1), PyInt(2), PyNone}

\* the scalar that lg holds, None before any
ScalarOf(lg) ==
    IF \E i \in 1..Len(lg) : lg[i].ev = "scalar"
    THEN lg[CHOOSE i \in 1..Len(lg) : lg[i].ev = "scalar"].params
    ELSE PyNone

\* sqlexists: return result == 1
ExistsResult(result) ==
    ReturnedNoParams(IF result = PyInt(1) THEN <<"True">> ELSE <<"False">>)

\* the mappers of a sqlquery: each mapper class, the two that take a
\* record mapper with one and with record_mapper=None
Mappers ==
    [cls : {"RecordCombiningMapper", "SingleRowMapper"}, record_mapper : BOOLEAN]
    \cup [cls : {"SingleColumnMapper", "SingleRowAndColumnMapper", "KeyValueMapper"},
          record_mapper : {FALSE}]

\* sqlexists and sqlupdate map nothing
NoMapper == [cls |-> "none", record_mapper |-> FALSE]

\* the most rows a cursor holds
MaxCursor == 2

\* map_records returns the cursor it was given
ReturnsCursor(mapper) == mapper.cls = "RecordCombiningMapper" /\ ~mapper.record_mapper

\* the number of rows map_records reads from a cursor of n rows
RowsRead(mapper, n) ==
    IF ReturnsCursor(mapper) THEN 0
    ELSE IF mapper.cls \in {"SingleRowMapper", "SingleRowAndColumnMapper"}
    THEN (IF n = 0 THEN 0 ELSE 1)
    ELSE n

\* k rows read from the cursor
Fetches(k) == [i \in 1..k |-> Did("fetch")]

\* what follows the execution of the statement inside the with block:
\* scalar() for sqlexists, map_records for sqlquery, nothing for sqlupdate
AfterExecute(c, scalar) ==
    IF c.fn = "sqlexists" THEN <<Event("scalar", <<>>, scalar)>>
    ELSE IF c.fn = "sqlquery" THEN Fetches(RowsRead(c.mapper, c.rows))
    ELSE <<>>

\* what the decorated functions return or yield: a plain text, a text that
\* is or is not an exists query, a token with its list, a token without its
\* parameter, a VALUES token with no rows, a token whose column holds a
\* double underscore, an exists query of the SELECT 1 WHERE EXISTS form, and
\* a str in place of a QueryData
DecoDatas ==
    {QueryData(<<"w">>, NoDict, NoDict),
     QueryData(<<" ">> \o SelectExists \o <<" ", "w">>, NoDict, NoDict),
     QueryData(<<"w", " ", "{", "i", "n", "_", "_", "t", ".", "c", "}">>, Dict(LiteralDict), PadParams),
     QueryData(<<"{", "i", "n", "_", "_", "t", ".", "c", "}">>, NoDict, NoDict),
     QueryData(<<"{", "v", "a", "l", "u", "e", "s", "_", "_", "v", "}">>, NoDict,
               Dict([k \in {W_values \o W_dunder \o <<"v">>} |-> PyList(<<>>)])),
     QueryData(<<"{", "i", "n", "_", "_", "a", "_", "_", "b", "}">>, NoDict,
               Dict([k \in {W_in \o W_dunder \o <<"a">> \o W_dunder \o <<"b">>} |-> PyList(<<PyInt(1)>>)])),
     QueryData(SelectOneWhereExists \o <<" ", "(", " ", "w", " ", ")">>, NoDict, NoDict),
     NotQueryData(<<"{", "i", "n", "_", "_", "t", ".", "c", "}">>)}

\* a function that returns has one QueryData; a generator function of a
\* sqlupdate yields any number of them
DecoratedCalls ==
    [fn : {"sqlquery"}, generator : {FALSE}, fk : {FALSE},
     prepared : BOOLEAN, datas : SeqsUpTo(DecoDatas, 1, 1),
     mapper : Mappers, rows : 0..MaxCursor]
    \cup [fn : {"sqlexists"}, generator : {FALSE}, fk : {FALSE},
          prepared : BOOLEAN, datas : SeqsUpTo(DecoDatas, 1, 1),
          mapper : {NoMapper}, rows : {0}]
    \cup [fn : {"sqlupdate"}, generator : {FALSE}, fk : BOOLEAN,
          prepared : BOOLEAN, datas : SeqsUpTo(DecoDatas, 1, 1),
          mapper : {NoMapper}, rows : {0}]
    \cup [fn : {"sqlupdate"}, generator : {TRUE}, fk : BOOLEAN,
          prepared : BOOLEAN, datas : SeqsUpTo(DecoDatas, 0, MaxYield),
          mapper : {NoMapper}, rows : {0}]

\* sqlupdate opens its connection manager with transaction = True
Transaction == call.fn = "sqlupdate"

Init ==
    /\ call \in DecoratedCalls
    /\ ret = NotCalled
    /\ pc = "start"
    /\ log = <<>>
    /\ yielded = 0

\* _ConnectionManager.__init__ and __enter__
ManagerEnter ==
    /\ pc = "start"
    /\ IF ~call.prepared
       THEN /\ ret' = Raised("DBNotPreparedError", <<>>)
            /\ pc' = "done"
            /\ log' = log
       ELSE /\ ret' = ret
            /\ pc' = IF Transaction THEN "fk_off" ELSE "func"
            /\ log' = log \o <<Did("connect")>>
                          \o (IF Transaction THEN <<Did("begin")>> ELSE <<>>)
                          \o <<Did("enter")>>
    /\ UNCHANGED <<call, yielded>>

\* sqlupdate: if disable_foreign_key_checks: execute SET FOREIGN_KEY_CHECKS=0
DisableForeignKeyChecks ==
    /\ pc = "fk_off"
    /\ IF call.fk
       THEN /\ log' = ExecuteQuery(log, FK_CHECKS_0, EmptyDict)
            /\ \E ok \in BOOLEAN :
                  /\ ret' = IF ok THEN ret ELSE Raised("DatabaseError", <<>>)
                  /\ pc' = IF ok THEN "func" ELSE "exit"
       ELSE /\ log' = log
            /\ ret' = ret
            /\ pc' = "func"
    /\ UNCHANGED <<call, yielded>>

\* the body of handle_query for the next QueryData of the function
HandleQuery ==
    /\ pc = "func"
    /\ yielded < Len(call.datas)
    /\ \E h \in {HandleData(call.fn, log, call.datas[yielded + 1])},
          last \in {~call.generator} :
          /\ IF h.exc # "none"
             THEN /\ log' = h.log
                  /\ ret' = Raised(h.exc, h.keys)
                  /\ pc' = "exit"
                  /\ yielded' = yielded
             ELSE \E ok \in BOOLEAN :
                     /\ \E scalar \in (IF ok /\ call.fn = "sqlexists" THEN ScalarResults
                                      ELSE {PyNone}) :
                           log' = h.log \o (IF ok THEN AfterExecute(call, scalar) ELSE <<>>)
                     /\ ret' = IF ok THEN ret ELSE Raised("DatabaseError", <<>>)
                     /\ pc' = IF ~ok THEN "exit"
                              ELSE IF ~last THEN "func"
                              ELSE IF Transaction THEN "fk_on" ELSE "exit"
                     /\ yielded' = IF ok THEN yielded + 1 ELSE yielded
    /\ UNCHANGED call

\* sqlupdate, generator style: the function has no more QueryData
GeneratorDone ==
    /\ pc = "func"
    /\ call.generator
    /\ yielded = Len(call.datas)
    /\ pc' = "fk_on"
    /\ UNCHANGED <<call, ret, log, yielded>>

\* sqlupdate: if disable_foreign_key_checks: execute SET FOREIGN_KEY_CHECKS=1
EnableForeignKeyChecks ==
    /\ pc = "fk_on"
    /\ IF call.fk
       THEN /\ log' = ExecuteQuery(log, FK_CHECKS_1, EmptyDict)
            /\ \E ok \in BOOLEAN :
                  ret' = IF ok THEN ret ELSE Raised("DatabaseError", <<>>)
       ELSE /\ log' = log
            /\ ret' = ret
    /\ pc' = "exit"
    /\ UNCHANGED <<call, yielded>>

\* _ConnectionManager.__exit__: roll back or commit, then the __exit__ of
\* the connection; a commit or rollback that raises leaves __exit__ at once
ManagerExit ==
    /\ pc = "exit"
    /\ \E ok \in (IF Transaction THEN BOOLEAN ELSE {TRUE}) :
          /\ log' = log \o (IF ~Transaction THEN <<>>
                            ELSE IF ret.exc # "pending" THEN <<Did("rollback")>>
                            ELSE <<Did("commit")>>)
                        \o (IF ok THEN <<Did("exit")>> ELSE <<>>)
          /\ ret' = IF ~ok THEN Raised("DatabaseError", <<>>)
                    ELSE IF ret.exc # "pending" THEN ret
                    ELSE IF call.fn = "sqlexists" THEN ExistsResult(ScalarOf(log))
                    ELSE Completed
    /\ pc' = "done"
    /\ UNCHANGED <<call, yielded>>

\* the caller of a sqlquery goes through the value it got: a cursor that
\* map_records returned as it was is read then
CallerReadsResult ==
    /\ pc = "done"
    /\ call.fn = "sqlquery"
    /\ ret.exc = "none"
    /\ pc' = "used"
    /\ log' = log \o (IF ReturnsCursor(call.mapper) THEN Fetches(call.rows) ELSE <<>>)
    /\ UNCHANGED <<call, ret, yielded>>

Next ==
    \/ CallerReadsResult
    \/ ManagerEnter
    \/ DisableForeignKeyChecks
    \/ HandleQuery
    \/ GeneratorDone
    \/ EnableForeignKeyChecks
    \/ ManagerExit

Spec == Init /\ [][Next]_vars

\* ------------------------------------------------------------------------
\* Mappers: rows, record types and the mappers of mappers.py
\* ------------------------------------------------------------------------
\* a row is a sequence of cells, one per column, the columns distinct
Cell(c, v) == [c |-> c, v |-> v]

Columns(row) == {row[i].c : i \in 1..Len(row)}

\* column in record
HasColumn(row, c) == c \in Columns(row)

\* record[column]
RowGet(row, c) == row[CHOOSE i \in 1..Len(row) : row[i].c = c].v

\* a dict with one entry
OneEntry(k, v) == [x \in {k} |-> v]

\* an instance of a record type: its __dict__, whether a row has been mapped
\* onto it (pydantic's __fields_set__ is not empty) and the error map_record
\* raised, "none" when it returned
Instance(d, mapped) == [d |-> d, mapped |-> mapped, exc |-> "none"]

Failed(inst, e) == [d |-> inst.d, mapped |-> inst.mapped, exc |-> e]

\* the record types: cls is "none" for record_mapper=None; the other fields
\* are the declarations of a DbMapResultModel subclass: _list_fields,
\* _set_fields, _dict_key_fields, _dict_value_mappings, the annotated fields
\* without a default (required) and the defaults of the others
RecordType(cls, list_fields, set_fields, dict_key_fields, dict_value_mappings, required, defaults) ==
    [cls |-> cls, list_fields |-> list_fields, set_fields |-> set_fields,
     dict_key_fields |-> dict_key_fields, dict_value_mappings |-> dict_value_mappings,
     required |-> required, defaults |-> defaults]

NoRecordMapper == RecordType("none", {}, {}, EmptyDict, EmptyDict, {}, EmptyDict)

DbMapResult == RecordType("DbMapResult", {}, {}, EmptyDict, EmptyDict, {}, EmptyDict)

\* DbMapResult.__init__ without arguments: id is set to None
DbMapResult_init == Instance(OneEntry("id", PyNone), FALSE)

\* DbMapResult.map_record over the cells record[i..]: self[column] = value
RECURSIVE DbMapResult_map_cells(_, _, _)
DbMapResult_map_cells(d, record, i) ==
    IF i > Len(record) THEN d
    ELSE DbMapResult_map_cells(DictUpdate(d, OneEntry(record[i].c, record[i].v)), record, i + 1)

DbMapResult_map_record(inst, record) ==
    Instance(DbMapResult_map_cells(inst.d, record, 1), inst.mapped)

\* Python sets and dicts as values
PySet(S) == [t |-> "set", v |-> S]

PyDict(f) == [t |-> "dict", v |-> f]

\* the values of a dict
Range(f) == {f[k] : k \in DOMAIN f}

\* dict.pop(k, None) for every k of ks
PopAll(d, ks) == [k \in (DOMAIN d) \ ks |-> d[k]]

\* the state of the loop of DbMapResultModel.map_record: current_dict and the
\* error raised, "none" while the loop runs
Mapping(d, e) == [d |-> d, exc |-> e]

\* _map_list without the test for null
map_list_of_nulls(d, mapped, record, field) ==
    IF ~mapped THEN Mapping(DictUpdate(d, OneEntry(field, PyList(<<RowGet(record, field)>>))), "none")
    ELSE IF field \notin DOMAIN d THEN Mapping(d, "KeyError")
    ELSE IF d[field].t # "list" THEN Mapping(d, "AttributeError")
    ELSE Mapping(DictUpdate(d, OneEntry(field, PyList(Append(d[field].v, RowGet(record, field))))),
                 "none")

\* DbMapResultModel._map_list
map_list(d, mapped, record, field) ==
    IF RowGet(record, field) = PyNone THEN Mapping(d, "none")
    ELSE IF ~mapped THEN Mapping(DictUpdate(d, OneEntry(field, PyList(<<RowGet(record, field)>>))), "none")
    ELSE IF field \notin DOMAIN d THEN Mapping(d, "KeyError")
    ELSE IF d[field].t # "list" THEN Mapping(d, "AttributeError")
    ELSE Mapping(DictUpdate(d, OneEntry(field, PyList(Append(d[field].v, RowGet(record, field))))),
                 "none")

\* DbMapResultModel._map_set
map_set(d, mapped, record, field) ==
    IF RowGet(record, field) = PyNone THEN Mapping(d, "none")
    ELSE IF ~mapped THEN Mapping(DictUpdate(d, OneEntry(field, PySet({RowGet(record, field)}))), "none")
    ELSE IF field \notin DOMAIN d THEN Mapping(d, "KeyError")
    ELSE IF d[field].t # "set" THEN Mapping(d, "AttributeError")
    ELSE Mapping(DictUpdate(d, OneEntry(field, PySet(d[field].v \cup {RowGet(record, field)}))),
                 "none")

\* _map_dict without the test for null
map_dict_of_nulls(rm, d, mapped, record, field) ==
    IF rm.dict_key_fields[field] \notin DOMAIN rm.dict_value_mappings
    THEN Mapping(d, "KeyError")
    ELSE IF ~HasColumn(record, rm.dict_value_mappings[rm.dict_key_fields[field]])
    THEN Mapping(d, "KeyError")
    ELSE IF ~mapped
    THEN Mapping(DictUpdate(d, OneEntry(rm.dict_key_fields[field],
                    PyDict(OneEntry(RowGet(record, field),
                        RowGet(record, rm.dict_value_mappings[rm.dict_key_fields[field]]))))),
                 "none")
    ELSE IF rm.dict_key_fields[field] \notin DOMAIN d THEN Mapping(d, "KeyError")
    ELSE IF d[rm.dict_key_fields[field]].t # "dict" THEN Mapping(d, "TypeError")
    ELSE Mapping(DictUpdate(d, OneEntry(rm.dict_key_fields[field],
                    PyDict(DictUpdate(d[rm.dict_key_fields[field]].v,
                        OneEntry(RowGet(record, field),
                            RowGet(record, rm.dict_value_mappings[rm.dict_key_fields[field]])))))),
                 "none")

\* DbMapResultModel._map_dict
map_dict(rm, d, mapped, record, field) ==
    IF rm.dict_key_fields[field] \notin DOMAIN rm.dict_value_mappings
    THEN Mapping(d, "KeyError")
    ELSE IF ~HasColumn(record, rm.dict_value_mappings[rm.dict_key_fields[field]])
    THEN Mapping(d, "KeyError")
    ELSE IF RowGet(record, rm.dict_value_mappings[rm.dict_key_fields[field]]) = PyNone
    THEN Mapping(d, "none")
    ELSE IF ~mapped
    THEN Mapping(DictUpdate(d, OneEntry(rm.dict_key_fields[field],
                    PyDict(OneEntry(RowGet(record, field),
                        RowGet(record, rm.dict_value_mappings[rm.dict_key_fields[field]]))))),
                 "none")
    ELSE IF rm.dict_key_fields[field] \notin DOMAIN d THEN Mapping(d, "KeyError")
    ELSE IF d[rm.dict_key_fields[field]].t # "dict" THEN Mapping(d, "TypeError")
    ELSE Mapping(DictUpdate(d, OneEntry(rm.dict_key_fields[field],
                    PyDict(DictUpdate(d[rm.dict_key_fields[field]].v,
                        OneEntry(RowGet(record, field),
                            RowGet(record, rm.dict_value_mappings[rm.dict_key_fields[field]])))))),
                 "none")

\* the field of record[i] handled as map_record handles it
map_field(rm, d, mapped, record, field) ==
    IF field \in rm.list_fields THEN map_list(d, mapped, record, field)
    ELSE IF field \in rm.set_fields THEN map_set(d, mapped, record, field)
    ELSE IF field \in DOMAIN rm.dict_key_fields THEN map_dict(rm, d, mapped, record, field)
    ELSE IF ~mapped THEN Mapping(DictUpdate(d, OneEntry(field, RowGet(record, field))), "none")
    ELSE Mapping(d, "none")

\* the loop of DbMapResultModel.map_record over the fields record[i..]
RECURSIVE map_fields(_, _, _, _, _)
map_fields(rm, m, mapped, record, i) ==
    IF i > Len(record) \/ m.exc # "none" THEN m
    ELSE map_fields(rm, map_field(rm, m.d, mapped, record, record[i].c), mapped, record, i + 1)

\* the annotated fields of a record type
Fields(rm) == rm.required \cup DOMAIN rm.defaults

\* pydantic's __init__(**d) for values of the declared types: a required
\* field must be there, None is accepted only by a field whose default is
\* None, undeclared names are dropped and a missing field takes its default
DbMapResultModel_init(rm, d) ==
    IF rm.required \ DOMAIN d # {} THEN Failed(Instance(d, FALSE), "ValidationError")
    ELSE IF \E f \in Fields(rm) \cap DOMAIN d :
               d[f] = PyNone /\ (f \in rm.required \/ rm.defaults[f] # PyNone)
    THEN Failed(Instance(d, FALSE), "ValidationError")
    ELSE Instance([f \in Fields(rm) |-> IF f \in DOMAIN d THEN d[f] ELSE rm.defaults[f]],
                  Fields(rm) \cap DOMAIN d # {})

\* the end of DbMapResultModel.map_record once the loop over the fields has
\* given m: the value columns are popped, then the first row is validated
finish_record(rm, inst, m) ==
    IF m.exc # "none" THEN Failed(Instance(m.d, inst.mapped), m.exc)
    ELSE IF inst.mapped THEN Instance(PopAll(m.d, Range(rm.dict_value_mappings)), TRUE)
    ELSE DbMapResultModel_init(rm, PopAll(m.d, Range(rm.dict_value_mappings)))

DbMapResultModel_map_record(rm, inst, record) ==
    finish_record(rm, inst, map_fields(rm, Mapping(inst.d, "none"), inst.mapped, record, 1))

\* record_mapper.create_instance()
create_instance(rm) ==
    IF rm.cls = "DbMapResult" THEN DbMapResult_init ELSE Instance(rm.defaults, FALSE)

\* instance.map_record(record)
map_record(rm, inst, record) ==
    IF rm.cls = "DbMapResult" THEN DbMapResult_map_record(inst, record)
    ELSE DbMapResultModel_map_record(rm, inst, record)

\* what map_records returned, or raised, and how many rows it pulled from
\* the row source
MapperReturned(value, fetched) == [exc |-> "none", value |-> value, fetched |-> fetched]

MapperRaised(e, fetched) == [exc |-> e, value |-> PyNone, fetched |-> fetched]

\* an OrderedDict as the sequence of its entries
Entry(k, v) == [k |-> k, v |-> v]

HasKey(od, k) == \E i \in 1..Len(od) : od[i].k = k

OdGet(od, k) == od[CHOOSE i \in 1..Len(od) : od[i].k = k].v

\* od[k] = v that always makes a new entry
OdAppend(od, k, v) == Append(od, Entry(k, v))

\* od[k] = v: a new key goes to the end, a known key keeps its place
OdSet(od, k, v) ==
    IF HasKey(od, k) THEN [i \in 1..Len(od) |-> IF od[i].k = k THEN Entry(k, v) ELSE od[i]]
    ELSE Append(od, Entry(k, v))

\* the loop of RecordCombiningMapper.map_records over records[i..]
RECURSIVE combine_loop(_, _, _, _, _)
combine_loop(rm, records, i, current_results, current_num) ==
    IF i > Len(records)
    THEN MapperReturned([j \in 1..Len(current_results) |-> current_results[j].v.d], Len(records))
    ELSE LET key == IF HasColumn(records[i], "id") THEN RowGet(records[i], "id")
                    ELSE PyInt(current_num)
             fresh == ~HasColumn(records[i], "id") \/ ~HasKey(current_results, key)
             inst == map_record(rm, IF fresh THEN create_instance(rm)
                                    ELSE OdGet(current_results, key), records[i])
         IN IF inst.exc # "none" THEN MapperRaised(inst.exc, i)
            ELSE combine_loop(rm, records, i + 1, OdSet(current_results, key, inst),
                              IF HasColumn(records[i], "id") THEN current_num
                              ELSE current_num + 1)

\* RecordCombiningMapper.map_records: without a record mapper the row
\* source itself is returned, unread
RecordCombiningMapper_map_records(rm, records) ==
    IF rm.cls = "none" THEN MapperReturned(records, 0)
    ELSE combine_loop(rm, records, 1, <<>>, 0)

\* a single-row mapper that goes on reading: it returns what the combining
\* mapper gives for the first identity
SingleRowMapper_reads_on(rm, records) ==
    IF rm.cls = "none" \/ Len(records) = 0 \/ combine_loop(rm, records, 1, <<>>, 0).exc # "none"
    THEN MapperReturned(IF Len(records) = 0 THEN PyNone ELSE records[1], Len(records))
    ELSE MapperReturned(combine_loop(rm, records, 1, <<>>, 0).value[1], Len(records))

\* SingleRowMapper.map_records: the loops return at the first row
SingleRowMapper_map_records(rm, records) ==
    IF Len(records) = 0 THEN MapperReturned(PyNone, 0)
    ELSE IF rm.cls = "none" THEN MapperReturned(records[1], 1)
    ELSE IF map_record(rm, create_instance(rm), records[1]).exc # "none"
    THEN MapperRaised(map_record(rm, create_instance(rm), records[1]).exc, 1)
    ELSE MapperReturned(map_record(rm, create_instance(rm), records[1]).d, 1)

\* KeyValueMapper.__init__: the mapper, or the error raised
KeyValueMapper_init(key_column, value_column, has_multiple_values_per_key) ==
    [exc |-> IF key_column = value_column THEN "MapperError" ELSE "none",
     key_column |-> key_column, value_column |-> value_column,
     has_multiple_values_per_key |-> has_multiple_values_per_key]

\* record[column] for a position (from 0) or a name finds a cell
Designates(record, column) ==
    IF column.t = "int" THEN column.v + 1 \in 1..Len(record)
    ELSE HasColumn(record, column.v)

\* record[column] for a position (from 0) or a name
RowAt(record, column) ==
    IF column.t = "int" THEN record[column.v + 1].v ELSE RowGet(record, column.v)

\* a loop that keeps what a key got first
RECURSIVE key_value_loop_first_wins(_, _, _, _)
key_value_loop_first_wins(mapper, records, i, results) ==
    IF i > Len(records) THEN MapperReturned(results, Len(records))
    ELSE IF ~Designates(records[i], mapper.key_column)
            \/ ~Designates(records[i], mapper.value_column)
    THEN MapperRaised("LookupError", i)
    ELSE IF RowAt(records[i], mapper.key_column) \in DOMAIN results
    THEN key_value_loop_first_wins(mapper, records, i + 1, results)
    ELSE key_value_loop_first_wins(mapper, records, i + 1,
            DictUpdate(results,
                OneEntry(RowAt(records[i], mapper.key_column),
                         IF mapper.has_multiple_values_per_key
                         THEN PyList(<<RowAt(records[i], mapper.value_column)>>)
                         ELSE RowAt(records[i], mapper.value_column))))

\* the loop of KeyValueMapper.map_records over records[i..]
RECURSIVE key_value_loop(_, _, _, _)
key_value_loop(mapper, records, i, results) ==
    IF i > Len(records) THEN MapperReturned(results, Len(records))
    ELSE IF ~Designates(records[i], mapper.key_column)
            \/ ~Designates(records[i], mapper.value_column)
    THEN MapperRaised("LookupError", i)
    ELSE LET key == RowAt(records[i], mapper.key_column)
             value == RowAt(records[i], mapper.value_column)
             old == IF key \in DOMAIN results THEN results[key].v ELSE <<>>
         IN key_value_loop(mapper, records, i + 1,
                DictUpdate(results,
                    OneEntry(key, IF mapper.has_multiple_values_per_key
                                  THEN PyList(Append(old, value)) ELSE value)))

KeyValueMapper_map_records(mapper, records) == key_value_loop(mapper, records, 1, EmptyDict)

\* the record types of the test modules: CombiningDbModel (list1 has no
\* default) and DefaultListCombiningDbModel (list1 defaults to []), with the
\* first of their two dict fields
CombiningDbModel ==
    RecordType("CombiningDbModel", {"list1"}, {"set1"}, OneEntry("key1", "dict1"),
               OneEntry("dict1", "val1"), {"list1"},
               [f \in {"id", "set1", "dict1"} |->
                   IF f = "id" THEN PyNone ELSE IF f = "set1" THEN PySet({}) ELSE PyDict(EmptyDict)])

DefaultListCombiningDbModel ==
    RecordType("DefaultListCombiningDbModel", {"list1"}, {"set1"}, OneEntry("key1", "dict1"),
               OneEntry("dict1", "val1"), {},
               [f \in {"id", "list1", "set1", "dict1"} |->
                   IF f = "id" THEN PyNone ELSE IF f = "list1" THEN PyList(<<>>)
                   ELSE IF f = "set1" THEN PySet({}) ELSE PyDict(EmptyDict)])

\* ConversionDbModel, with two of its four required plain fields
ConversionDbModel ==
    RecordType("ConversionDbModel", {}, {}, EmptyDict, EmptyDict, {"id", "field_int"}, EmptyDict)

\* MultiKeyModel: its key columns are a and b, c is a list field
MultiKeyModel ==
    RecordType("MultiKeyModel", {"c"}, {}, EmptyDict, EmptyDict, {"a", "b", "c"}, EmptyDict)

\* record_mapper.get_key_columns() as the test modules declare it; nothing
\* under dysql/ calls it
get_key_columns(rm) == IF rm.cls = "MultiKeyModel" THEN <<"a", "b">> ELSE <<"id">>

\* the longest row source
MaxRows == 3

\* rows for the default record type: id is absent, 0 or 1, a is absent, 1 or 2
PlainRows ==
    {ids \o as : ids \in {<<>>, <<Cell("id", PyInt(0))>>, <<Cell("id", PyInt(1))>>},
                 as \in {<<>>, <<Cell("a", PyInt(1))>>, <<Cell("a", PyInt(2))>>}} \ {<<>>}

\* rows for the combining models
CombiningRows ==
    {<<Cell("id", PyInt(1))>>,
     <<Cell("id", PyInt(1)), Cell("list1", PyNone)>>,
     <<Cell("id", PyInt(1)), Cell("list1", PyStr("v1"))>>,
     <<Cell("id", PyInt(1)), Cell("list1", PyStr("v2"))>>,
     <<Cell("id", PyInt(2)), Cell("list1", PyStr("v1"))>>,
     <<Cell("id", PyInt(1)), Cell("set1", PyNone)>>,
     <<Cell("id", PyInt(1)), Cell("set1", PyStr("v1"))>>,
     <<Cell("id", PyInt(1)), Cell("list1", PyStr("v1")), Cell("set1", PyStr("v2"))>>,
     <<Cell("id", PyInt(1)), Cell("key1", PyStr("k1")), Cell("val1", PyStr("v1"))>>,
     <<Cell("id", PyInt(1)), Cell("key1", PyStr("k1")), Cell("val1", PyStr("v2"))>>,
     <<Cell("id", PyInt(1)), Cell("key1", PyStr("k2")), Cell("val1", PyNone)>>,
     <<Cell("id", PyInt(1)), Cell("key1", PyStr("k2"))>>,
     <<Cell("id", PyInt(1)), Cell("val1", PyStr("v1"))>>}

\* rows for ConversionDbModel
ConversionRows ==
    {<<Cell("id", PyInt(1))>>,
     <<Cell("id", PyInt(1)), Cell("field_int", PyInt(1))>>,
     <<Cell("id", PyInt(1)), Cell("field_int", PyInt(2))>>,
     <<Cell("id", PyInt(2)), Cell("field_int", PyInt(1))>>}

\* rows for MultiKeyModel
MultiKeyRows ==
    {<<Cell("a", PyInt(1)), Cell("b", PyStr("test")), Cell("c", PyStr("one"))>>,
     <<Cell("a", PyInt(1)), Cell("b", PyStr("test")), Cell("c", PyStr("two"))>>,
     <<Cell("a", PyInt(2)), Cell("b", PyStr("test")), Cell("c", PyStr("one"))>>,
     <<Cell("a", PyInt(1)), Cell("b", PyStr("othertest")), Cell("c", PyStr("one"))>>}

\* rows for the key-value mapper: column 0 is x, column 1 is y, and one row
\* has the first column only
PairRows ==
    {<<Cell("x", PyStr(kx)), Cell("y", PyInt(vy))>> : kx \in {"a", "b"}, vy \in {1, 2}}
    \cup {<<Cell("x", PyStr("a"))>>}

\* how a column is designated: by its position or by its name
Designators == {PyInt(0), PyInt(1), PyStr("x"), PyStr("y")}

MapperCall(fn, rm, records, kc, vc, multi) ==
    [fn |-> fn, record_mapper |-> rm, records |-> records, key_column |-> kc,
     value_column |-> vc, has_multiple_values_per_key |-> multi]

\* call is a call of a mapper with a record type of rms on n rows of rows
RecordMapperCall(rms, rows, n) ==
    \E fn \in {"RecordCombiningMapper", "SingleRowMapper"}, rm \in rms,
       records \in [1..n -> rows] :
        call = MapperCall(fn, rm, records, PyInt(0), PyInt(1), FALSE)

\* call is a call of a key-value mapper on n rows
KeyValueMapperCall(n) ==
    \E records \in [1..n -> PairRows], kc \in Designators, vc \in Designators,
       multi \in BOOLEAN :
        call = MapperCall("KeyValueMapper", NoRecordMapper, records, kc, vc, multi)

InitMapper ==
    /\ \E n \in 0..MaxRows :
          \/ RecordMapperCall({DbMapResult, NoRecordMapper}, PlainRows, n)
          \/ RecordMapperCall({CombiningDbModel, DefaultListCombiningDbModel}, CombiningRows, n)
          \/ RecordMapperCall({ConversionDbModel}, ConversionRows, n)
          \/ RecordMapperCall({MultiKeyModel}, MultiKeyRows, n)
          \/ KeyValueMapperCall(n)
    /\ ret = NotCalled
    /\ NoConnection

\* RecordCombiningMapper(record_mapper).map_records(records)
MapRecordCombining ==
    /\ call.fn = "RecordCombiningMapper"
    /\ ret = NotCalled
    /\ ret' = RecordCombiningMapper_map_records(call.record_mapper, call.records)
    /\ UNCHANGED <<call, pc, log, yielded>>

\* SingleRowMapper(record_mapper).map_records(records)
MapSingleRow ==
    /\ call.fn = "SingleRowMapper"
    /\ ret = NotCalled
    /\ ret' = SingleRowMapper_map_records(call.record_mapper, call.records)
    /\ UNCHANGED <<call, pc, log, yielded>>

\* KeyValueMapper(key_column, value_column, has_multiple_values_per_key)
ConstructKeyValueMapper ==
    /\ call.fn = "KeyValueMapper"
    /\ pc = "none"
    /\ \E mapper \in {KeyValueMapper_init(call.key_column, call.value_column,
                                          call.has_multiple_values_per_key)} :
          IF mapper.exc # "none"
          THEN pc' = "done" /\ ret' = MapperRaised(mapper.exc, 0)
          ELSE pc' = "constructed" /\ ret' = ret
    /\ UNCHANGED <<call, log, yielded>>

\* mapper.map_records(records) of the key-value mapper constructed
MapKeyValue ==
    /\ call.fn = "KeyValueMapper"
    /\ pc = "constructed"
    /\ pc' = "done"
    /\ ret' = KeyValueMapper_map_records(
                 KeyValueMapper_init(call.key_column, call.value_column,
                                     call.has_multiple_values_per_key), call.records)
    /\ UNCHANGED <<call, log, yielded>>

NextMapper == MapRecordCombining \/ MapSingleRow \/ ConstructKeyValueMapper \/ MapKeyValue

SpecMapper == InitMapper /\ [][NextMapper]_vars

\* ------------------------------------------------------------------------
\* Two invocations under way at once: map_records of one mapper instance
\* called twice, or get_query_data called twice; each invocation goes on by
\* one row or one template key at a time
\* ------------------------------------------------------------------------
\* the longest input of an interleaved invocation
MaxEach == 2

\* the locals of an invocation that has not begun
NoLocals == [none |-> TRUE]

\* the locals of the first invocation while it is in its loop, as if the
\* locals were kept on the instance the invocations share
SharedLocals(locals, t) == IF pc[1] = "loop" THEN locals[1] ELSE locals[t]

\* the locals of invocation t: every invocation has locals of its own
OwnLocals(locals, t) == locals[t]

\* one turn of the loop of RecordCombiningMapper.map_records for record
combine_step(rm, record, st) ==
    LET key == IF HasColumn(record, "id") THEN RowGet(record, "id") ELSE PyInt(st.current_num)
        fresh == ~HasColumn(record, "id") \/ ~HasKey(st.current_results, key)
        inst == map_record(rm, IF fresh THEN create_instance(rm)
                               ELSE OdGet(st.current_results, key), record)
    IN [current_results |-> OdSet(st.current_results, key, inst),
        current_num |-> IF HasColumn(record, "id") THEN st.current_num ELSE st.current_num + 1,
        exc |-> inst.exc]

InterleavedRows ==
    {<<Cell("id", PyInt(0)), Cell("a", PyInt(1))>>,
     <<Cell("id", PyInt(0)), Cell("a", PyInt(2))>>,
     <<Cell("a", PyInt(1))>>}

InterleavedPairs ==
    {<<Cell("x", PyStr("a")), Cell("y", PyInt(1))>>,
     <<Cell("x", PyStr("a")), Cell("y", PyInt(2))>>,
     <<Cell("x", PyStr("b")), Cell("y", PyInt(1))>>}

\* two invocations of kind on the inputs in1 and in2; mapper is the mapper
\* instance the two share
Interleaved(kind, mapper, in1, in2) ==
    [kind |-> kind, mapper |-> mapper, inputs |-> <<in1, in2>>]

InitInterleaved ==
    /\ \/ \E rm \in {DbMapResult, NoRecordMapper}, n1 \in 0..MaxEach, n2 \in 0..MaxEach :
             \E in1 \in [1..n1 -> InterleavedRows], in2 \in [1..n2 -> InterleavedRows] :
                call = Interleaved("RecordCombiningMapper", [record_mapper |-> rm], in1, in2)
       \/ \E multi \in BOOLEAN, n1 \in 0..MaxEach, n2 \in 0..MaxEach :
             \E in1 \in [1..n1 -> InterleavedPairs], in2 \in [1..n2 -> InterleavedPairs] :
                call = Interleaved("KeyValueMapper", KeyValueMapper_init(PyInt(0), PyInt(1), multi),
                                   in1, in2)
       \/ \E in1 \in DecoDatas, in2 \in DecoDatas :
             call = Interleaved("get_query_data", NoLocals, in1, in2)
    /\ ret = <<NotCalled, NotCalled>>
    /\ pc = <<"start", "start">>
    /\ log = <<NoLocals, NoLocals>>
    /\ yielded = <<0, 0>>

\* the invocation t ends with the result r
InvocationEnds(t, r) ==
    /\ ret' = [ret EXCEPT ![t] = r]
    /\ pc' = [pc EXCEPT ![t] = "done"]
    /\ UNCHANGED <<call, log, yielded>>

\* the invocation t goes on with the locals st
InvocationGoesOn(t, st, done) ==
    /\ log' = [log EXCEPT ![t] = st]
    /\ pc' = [pc EXCEPT ![t] = "loop"]
    /\ yielded' = [yielded EXCEPT ![t] = @ + done]
    /\ UNCHANGED <<call, ret>>

\* RecordCombiningMapper.map_records up to its loop
CombiningBegins(t) ==
    /\ call.kind = "RecordCombiningMapper"
    /\ pc[t] = "start"
    /\ IF call.mapper.record_mapper.cls = "none"
       THEN InvocationEnds(t, MapperReturned(call.inputs[t], 0))
       ELSE InvocationGoesOn(t, [current_results |-> <<>>, current_num |-> 0, exc |-> "none"], 0)

\* one turn of the loop of RecordCombiningMapper.map_records
CombiningTurn(t) ==
    /\ call.kind = "RecordCombiningMapper"
    /\ pc[t] = "loop"
    /\ yielded[t] < Len(call.inputs[t])
    /\ \E st \in {combine_step(call.mapper.record_mapper, call.inputs[t][yielded[t] + 1],
                               OwnLocals(log, t))} :
          IF st.exc # "none" THEN InvocationEnds(t, MapperRaised(st.exc, yielded[t] + 1))
          ELSE InvocationGoesOn(t, st, 1)

\* the return of RecordCombiningMapper.map_records
CombiningReturns(t) ==
    /\ call.kind = "RecordCombiningMapper"
    /\ pc[t] = "loop"
    /\ yielded[t] = Len(call.inputs[t])
    /\ InvocationEnds(t, MapperReturned(
          [j \in 1..Len(OwnLocals(log, t).current_results) |->
              OwnLocals(log, t).current_results[j].v.d], Len(call.inputs[t])))

\* KeyValueMapper.map_records up to its loop
KeyValueBegins(t) ==
    /\ call.kind = "KeyValueMapper"
    /\ pc[t] = "start"
    /\ InvocationGoesOn(t, EmptyDict, 0)

\* one turn of the loop of KeyValueMapper.map_records
KeyValueTurn(t) ==
    /\ call.kind = "KeyValueMapper"
    /\ pc[t] = "loop"
    /\ yielded[t] < Len(call.inputs[t])
    /\ \E r \in {key_value_loop(call.mapper, <<call.inputs[t][yielded[t] + 1]>>, 1,
                                OwnLocals(log, t))} :
          IF r.exc # "none" THEN InvocationEnds(t, MapperRaised(r.exc, yielded[t] + 1))
          ELSE InvocationGoesOn(t, r.value, 1)

\* the return of KeyValueMapper.map_records
KeyValueReturns(t) ==
    /\ call.kind = "KeyValueMapper"
    /\ pc[t] = "loop"
    /\ yielded[t] = Len(call.inputs[t])
    /\ InvocationEnds(t, MapperReturned(OwnLocals(log, t), Len(call.inputs[t])))

\* get_query_data up to its loop: the checks, and the literal map copied
\* into params
QueryBegins(t) ==
    /\ call.kind = "get_query_data"
    /\ pc[t] = "start"
    /\ IF validate_query_and_params(call.inputs[t]) # "none"
       THEN InvocationEnds(t, Raised(validate_query_and_params(call.inputs[t]), <<>>))
       ELSE \E v \in {validate_keys_clean_query(call.inputs[t].query,
                                                call.inputs[t].template_params)} :
               IF v.exc # "none" THEN InvocationEnds(t, Raised(v.exc, v.keys))
               ELSE InvocationGoesOn(t,
                       [query |-> v.query, validated_keys |-> v.keys,
                        params |-> IF call.inputs[t].query_params.none THEN EmptyDict
                                   ELSE call.inputs[t].query_params.d], 0)

\* one turn of the loop of get_query_data over the validated keys
QueryTurn(t) ==
    /\ call.kind = "get_query_data"
    /\ pc[t] = "loop"
    /\ yielded[t] < Len(OwnLocals(log, t).validated_keys)
    /\ \E r \in {ExpandLoop(<<OwnLocals(log, t).validated_keys[yielded[t] + 1]>>, 1,
                            OwnLocals(log, t).query, OwnLocals(log, t).params,
                            call.inputs[t].template_params)} :
          IF r.exc # "none" THEN InvocationEnds(t, r)
          ELSE InvocationGoesOn(t, [query |-> r.query,
                                    validated_keys |-> OwnLocals(log, t).validated_keys,
                                    params |-> r.params], 1)

\* the return of get_query_data
QueryReturns(t) ==
    /\ call.kind = "get_query_data"
    /\ pc[t] = "loop"
    /\ yielded[t] = Len(OwnLocals(log, t).validated_keys)
    /\ InvocationEnds(t, Returned(OwnLocals(log, t).query, OwnLocals(log, t).params))

NextInterleaved ==
    \E t \in 1..2 :
       \/ CombiningBegins(t)
       \/ CombiningTurn(t)
       \/ CombiningReturns(t)
       \/ KeyValueBegins(t)
       \/ KeyValueTurn(t)
       \/ KeyValueReturns(t)
       \/ QueryBegins(t)
       \/ QueryTurn(t)
       \/ QueryReturns(t)

SpecInterleaved == InitInterleaved /\ [][NextInterleaved]_vars

\* ------------------------------------------------------------------------
\* get_query_data on objects: the QueryData the caller holds, the map the
\* function builds and returns, and the caller writing to the returned map
\* ------------------------------------------------------------------------
\* params bound to the map the QueryData holds, as params = data.query_params
params_is_query_params == "query_params"

\* the object the name params is bound to: params = {} makes a new map
params_object == "params"

\* the objects before the call: the QueryData, and no map params yet
Objects(data) == [data |-> data, params |-> NoDict]

\* the map the object obj is
MapOf(heap, obj) ==
    IF obj = "params" THEN heap.params ELSE heap.data.query_params

\* obj.update(...) and obj[key] = value leave the object obj holding d
Write(heap, obj, d) ==
    IF obj = "params" THEN [heap EXCEPT !.params = Dict(d)]
    ELSE [heap EXCEPT !.data.query_params = Dict(d)]

\* a QueryData whose text is the first j of the validated keys, each in
\* braces: get_query_data on it makes the first j turns of the loop
FirstKeys(data, keys, j) ==
    QueryData(Flatten([i \in 1..j |-> <<"{">> \o keys[i] \o <<"}">>]),
              data.query_params, data.template_params)

\* the QueryData of every number of turns of the loop over the keys of v
TurnsOf(data, v) ==
    IF v.exc # "none" THEN {}
    ELSE {FirstKeys(data, v.keys, j) : j \in 0..Len(v.keys)}

\* the number of turns the loop makes before one raises
TurnsDone(data, keys, results) ==
    Least({j \in 1..Len(keys) : results[FirstKeys(data, keys, j)].exc # "none"}
          \cup {Len(keys) + 1}) - 1

\* what params holds when get_query_data leaves: what it returns, or on a
\* raise nothing when the keys fail validation, else the literal map and
\* the generated maps of the turns the loop made
ParamsWritten(data, v, results) ==
    IF results[data].exc = "none" THEN results[data].params
    ELSE IF v.exc # "none" THEN EmptyDict
    ELSE results[FirstKeys(data, v.keys, TurnsDone(data, v.keys, results))].params

\* what a caller puts into the map it got back
CallerEntry == [k \in {<<"z">>} |-> PyInt(0)]

InitFrame ==
    /\ \E segs \in SegSeqs :
          \E qp \in QueryParamsChoices, tp \in TemplateParamsFor(segs) :
             call = QueryCall(segs, qp, tp)
    /\ ret = [result |-> NotCalled, map |-> "none"]
    /\ pc = "start"
    /\ log = Objects(call.data)
    /\ yielded = 0

\* get_query_data(data), with every write it makes to an object
GetQueryDataOnObjects ==
    /\ pc = "start"
    /\ pc' = "returned"
    /\ \E v \in {validate_keys_clean_query(call.data.query, call.data.template_params)} :
          \E results \in {[d \in {call.data} \cup TurnsOf(call.data, v) |-> get_query_data(d)]} :
             /\ log' = IF validate_query_and_params(call.data) # "none" THEN log
                       ELSE Write(log, params_object, ParamsWritten(call.data, v, results))
             /\ ret' = [result |-> results[call.data], map |-> params_object]
    /\ UNCHANGED <<call, yielded>>

\* the caller adds an entry to the map get_query_data returned
CallerWritesReturnedMap ==
    /\ pc = "returned"
    /\ ret.result.exc = "none"
    /\ pc' = "used"
    /\ log' = Write(log, ret.map, DictUpdate(MapOf(log, ret.map).d, CallerEntry))
    /\ UNCHANGED <<call, ret, yielded>>

NextFrame ==
    \/ GetQueryDataOnObjects
    \/ CallerWritesReturnedMap

SpecFrame == InitFrame /\ [][NextFrame]_vars

\* ------------------------------------------------------------------------
\* The databases of databases.py: the default connection parameters, the
\* current database of the context and the container of Database objects
\* ------------------------------------------------------------------------
\* the most calls made in one behaviour
MaxOps == 5

DatabaseNames == {"test", "db1", "db2"}

\* the container has no Database under a name: id 0; a Database whose
\* engine is not yet made: engine 0
NoDatabase == [id |-> 0, engine |-> 0]

\* the module state: params is the database of _DEFAULT_CONNECTION_PARAMS,
\* "" while the parameters are empty; container maps a name to its
\* Database; made counts the Database objects constructed; created lists
\* the databases create_engine was called for; returned holds what the
\* lookups gave
NoDatabases(params) ==
    [params |-> params, container |-> [n \in DatabaseNames |-> NoDatabase],
     made |-> 0, created |-> <<>>, returned |-> {}]

\* _get_current_database: the context's database, the default one when
\* that is empty
get_current_database(var, params) == IF var # "" THEN var ELSE params

\* __getitem__ that constructs a Database at every lookup
DatabaseContainer_getitem_always_new(st, database) ==
    [st EXCEPT !.container[database] = [id |-> st.made + 1, engine |-> 0],
               !.made = st.made + 1]

\* DatabaseContainer.__getitem__ past its check of the parameters: a
\* Database is constructed for a name the container does not hold
DatabaseContainer_getitem(st, database) ==
    IF st.container[database].id # 0 THEN st
    ELSE [st EXCEPT !.container[database] = [id |-> st.made + 1, engine |-> 0],
                    !.made = st.made + 1]

\* Database.engine: the engine is created at the first read
Database_engine(st, database) ==
    IF st.container[database].engine # 0 THEN st
    ELSE [st EXCEPT !.container[database].engine = Len(st.created) + 1,
                    !.created = Append(st.created, database)]

\* what a lookup gives: the Database and its engine
Found(st, database) ==
    [exc |-> "none", database |-> database,
     id |-> st.container[database].id, engine |-> st.container[database].engine]

NotFound(exc) == [exc |-> exc, database |-> "", id |-> 0, engine |-> 0]

InitDatabases ==
    /\ call = [fn |-> "none", database |-> ""]
    /\ ret = NotFound("pending")
    /\ pc = ""
    /\ \E params \in {"", "test"} : log = NoDatabases(params)
    /\ yielded = 0

\* set_default_connection_parameters with every required parameter given
SetDefaultConnectionParameters ==
    /\ yielded < MaxOps
    /\ \E database \in DatabaseNames :
          /\ call' = [fn |-> "set_default_connection_parameters", database |-> database]
          /\ log' = [log EXCEPT !.params = database]
    /\ yielded' = yielded + 1
    /\ UNCHANGED <<ret, pc>>

\* set_current_database(database)
SetCurrentDatabase ==
    /\ yielded < MaxOps
    /\ \E database \in DatabaseNames :
          /\ call' = [fn |-> "set_current_database", database |-> database]
          /\ pc' = database
    /\ yielded' = yielded + 1
    /\ UNCHANGED <<ret, log>>

\* reset_current_database(): set_current_database('')
ResetCurrentDatabase ==
    /\ yielded < MaxOps
    /\ call' = [fn |-> "reset_current_database", database |-> ""]
    /\ pc' = ""
    /\ yielded' = yielded + 1
    /\ UNCHANGED <<ret, log>>

\* a lookup: DatabaseContainerSingleton().current_database.engine
LookUp ==
    /\ yielded < MaxOps
    /\ call' = [fn |-> "current_database", database |-> get_current_database(pc, log.params)]
    /\ IF log.params = ""
       THEN /\ ret' = NotFound("DBNotPreparedError")
            /\ log' = log
       ELSE \E st \in {Database_engine(
                          DatabaseContainer_getitem(log, get_current_database(pc, log.params)),
                          get_current_database(pc, log.params))} :
               /\ ret' = Found(st, get_current_database(pc, log.params))
               /\ log' = [st EXCEPT !.returned = @ \cup {ret'}]
    /\ yielded' = yielded + 1
    /\ UNCHANGED pc

NextDatabases ==
    \/ SetDefaultConnectionParameters
    \/ SetCurrentDatabase
    \/ ResetCurrentDatabase
    \/ LookUp

SpecDatabases == InitDatabases /\ [][NextDatabases]_vars

\* ------------------------------------------------------------------------
\* The configuration calls: set_database_parameters of connections.py and
\* set_default_connection_parameters of databases.py
\* ------------------------------------------------------------------------
\* the most configuration calls made in one behaviour
MaxConfigure == 2

\* None and the empty str, and the values that are given
Unset == {"None", ""}

Credentials == Unset \cup {"x"}

ConfiguredNames == Unset \cup {"d", "e"}

\* the module state at import: DEFAULT_DATABASE = None, DATABASES = {},
\* _DEFAULT_CONNECTION_PARAMS = {}
Unconfigured ==
    [DEFAULT_DATABASE |-> "None", DATABASES |-> {}, DEFAULT_CONNECTION_PARAMS |-> {}]

\* the first of host, user, password, database that is not set, "" if all are
FirstMissing(c) ==
    IF c.host \in Unset THEN "host"
    ELSE IF c.user \in Unset THEN "user"
    ELSE IF c.password \in Unset THEN "password"
    ELSE IF c.database \in Unset THEN "database"
    ELSE ""

\* what a configuration call gives: nothing, or DBNotPreparedError for a field
Configured(c) ==
    IF FirstMissing(c) = "" THEN [exc |-> "none", field |-> ""]
    ELSE [exc |-> "DBNotPreparedError", field |-> FirstMissing(c)]

\* connections.set_database_parameters: DEFAULT_DATABASE = database, then
\* the checks, then the entry of DATABASES
set_database_parameters(st, c) ==
    IF FirstMissing(c) # "" THEN [st EXCEPT !.DEFAULT_DATABASE = c.database]
    ELSE [st EXCEPT !.DEFAULT_DATABASE = c.database,
                    !.DATABASES = @ \cup {[database |-> c.database, host |-> c.host,
                                           user |-> c.user, password |-> c.password]}]

\* databases.set_default_connection_parameters: the checks, then the
\* update of _DEFAULT_CONNECTION_PARAMS
set_default_connection_parameters(st, c) ==
    IF FirstMissing(c) # "" THEN st
    ELSE [st EXCEPT !.DEFAULT_CONNECTION_PARAMS =
                        {[database |-> c.database, host |-> c.host,
                          user |-> c.user, password |-> c.password]}]

InitConfigure ==
    /\ call = [fn |-> "none", host |-> "None", user |-> "None", password |-> "None",
               database |-> "None"]
    /\ ret = [exc |-> "pending", field |-> ""]
    /\ pc = "import"
    /\ log = Unconfigured
    /\ yielded = 0

\* a call with the arguments of c
Configure(c) ==
    /\ call' = c
    /\ ret' = Configured(c)
    /\ pc' = "called"
    /\ yielded' = yielded + 1

CallSetDatabaseParameters ==
    /\ yielded < MaxConfigure
    /\ \E c \in [fn : {"set_database_parameters"}, host : Credentials, user : Credentials,
                 password : Credentials, database : ConfiguredNames] :
          /\ Configure(c)
          /\ log' = set_database_parameters(log, c)

CallSetDefaultConnectionParameters ==
    /\ yielded < MaxConfigure
    /\ \E c \in [fn : {"set_default_connection_parameters"}, host : Credentials,
                 user : Credentials, password : Credentials, database : ConfiguredNames] :
          /\ Configure(c)
          /\ log' = set_default_connection_parameters(log, c)

NextConfigure ==
    \/ CallSetDatabaseParameters
    \/ CallSetDefaultConnectionParameters

SpecConfigure == InitConfigure /\ [][NextConfigure]_vars

\* ------------------------------------------------------------------------
\* Two threads using one database name for the first time: through the
\* container of databases.py, or through _init_database of connections.py.
\* No lock is taken anywhere, so a thread may be suspended between any
\* two of its reads and writes of the shared objects
\* ------------------------------------------------------------------------
Threads == {1, 2}

\* what a thread holds in its frame: whether it found the name missing, the
\* Database it got, whether it found the engine unset, the engine it made
NoFrame == [missing |-> FALSE, db |-> 0, create |-> FALSE, new |-> 0]

\* the shared objects before the first use: the container without the
\* name, no Database object, the entry of DATABASES with engine None, and
\* no call of create_engine yet
FirstUse ==
    [container |-> 0, made |-> 0, engine_of |-> [d \in Threads |-> 0],
     DATABASES_engine |-> 0, created |-> 0]

\* what a thread ends up using
Using(db, engine) == [db |-> db, engine |-> engine]

InitRace ==
    /\ \E path \in {"databases", "connections"} : call = [path |-> path]
    /\ ret = [t \in Threads |-> Using(0, 0)]
    /\ pc = [t \in Threads |-> "start"]
    /\ log = FirstUse
    /\ yielded = [t \in Threads |-> NoFrame]

\* the thread t moves to the place next, its frame and the shared objects
\* becoming frame and shared
Step(t, next, frame, shared) ==
    /\ pc' = [pc EXCEPT ![t] = next]
    /\ yielded' = [yielded EXCEPT ![t] = frame]
    /\ log' = shared
    /\ UNCHANGED <<call, ret>>

\* DatabaseContainer.__getitem__: if not super().__contains__(database)
ContainsCheck ==
    \E t \in Threads :
       /\ call.path = "databases"
       /\ pc[t] = "start"
       /\ Step(t, "setitem", [yielded[t] EXCEPT !.missing = (log.container = 0)], log)

\* DatabaseContainer.__getitem__: super().__setitem__(database, Database(database))
SetItem ==
    \E t \in Threads :
       /\ pc[t] = "setitem"
       /\ Step(t, "getitem", yielded[t],
               IF yielded[t].missing
               THEN [log EXCEPT !.container = log.made + 1, !.made = log.made + 1]
               ELSE log)

\* DatabaseContainer.__getitem__: return super().__getitem__(database)
GetItem ==
    \E t \in Threads :
       /\ pc[t] = "getitem"
       /\ Step(t, "engine_check", [yielded[t] EXCEPT !.db = log.container], log)

\* Database.engine: if not self._engine
EngineCheck ==
    \E t \in Threads :
       /\ pc[t] = "engine_check"
       /\ Step(t, IF log.engine_of[yielded[t].db] = 0 THEN "engine_create" ELSE "engine_return",
               [yielded[t] EXCEPT !.create = (log.engine_of[yielded[t].db] = 0)], log)

\* Database.engine: sqlalchemy.create_engine(...)
EngineCreate ==
    \E t \in Threads :
       /\ pc[t] = "engine_create"
       /\ Step(t, "engine_assign", [yielded[t] EXCEPT !.new = log.created + 1],
               [log EXCEPT !.created = log.created + 1])

\* Database.engine: self._engine = the engine made
EngineAssign ==
    \E t \in Threads :
       /\ pc[t] = "engine_assign"
       /\ Step(t, "engine_return", yielded[t],
               [log EXCEPT !.engine_of[yielded[t].db] = yielded[t].new])

\* Database.engine: return self._engine
EngineReturn ==
    \E t \in Threads :
       /\ pc[t] = "engine_return"
       /\ ret' = [ret EXCEPT ![t] = Using(yielded[t].db, log.engine_of[yielded[t].db])]
       /\ pc' = [pc EXCEPT ![t] = "done"]
       /\ UNCHANGED <<call, log, yielded>>

\* _init_database: if current_database.get('engine') is None
InitDatabaseCheck ==
    \E t \in Threads :
       /\ call.path = "connections"
       /\ pc[t] = "start"
       /\ Step(t, IF log.DATABASES_engine = 0 THEN "init_create" ELSE "init_read",
               [yielded[t] EXCEPT !.create = (log.DATABASES_engine = 0)], log)

\* _init_database: sqlalchemy.create_engine(...)
InitDatabaseCreate ==
    \E t \in Threads :
       /\ pc[t] = "init_create"
       /\ Step(t, "init_assign", [yielded[t] EXCEPT !.new = log.created + 1],
               [log EXCEPT !.created = log.created + 1])

\* _init_database: current_database['engine'] = the engine made
InitDatabaseAssign ==
    \E t \in Threads :
       /\ pc[t] = "init_assign"
       /\ Step(t, "init_read", yielded[t], [log EXCEPT !.DATABASES_engine = yielded[t].new])

\* _ConnectionManager.__init__: engine = DATABASES[DEFAULT_DATABASE]['engine']
ManagerReadsEngine ==
    \E t \in Threads :
       /\ pc[t] = "init_read"
       /\ ret' = [ret EXCEPT ![t] = Using(0, log.DATABASES_engine)]
       /\ pc' = [pc EXCEPT ![t] = "done"]
       /\ UNCHANGED <<call, log, yielded>>

NextRace ==
    \/ ContainsCheck
    \/ SetItem
    \/ GetItem
    \/ EngineCheck
    \/ EngineCreate
    \/ EngineAssign
    \/ EngineReturn
    \/ InitDatabaseCheck
    \/ InitDatabaseCreate
    \/ InitDatabaseAssign
    \/ ManagerReadsEngine

SpecRace == InitRace /\ [][NextRace]_vars

\* ------------------------------------------------------------------------
\* Properties of the template generators (SpecTemplate)
\* ------------------------------------------------------------------------
Called == ret.exc # "pending"

\* the name a placeholder is built from: the column name, a dot written as
\* an underscore
BindName(name) == Replace(name, <<".">>, <<"_">>)

\* name_0 .. name_{n-1}
IndexedNames(base, n) == [i \in 1..n |-> base \o <<"_">> \o Str(i - 1)]

\* "( :k1, :k2, ... )"
Group(names) == <<"(", " ", ":">> \o Join(<<",", " ", ":">>, names) \o <<" ", ")">>

SeqRange(xs) == {xs[i] : i \in 1..Len(xs)}

\* the map that gives names[i] the value vals[i]
ZipDict(names, vals) ==
    [k \in SeqRange(names) |-> vals[CHOOSE i \in 1..Len(names) : names[i] = k]]

IsScalarList(x) == x.t = "list" /\ \A i \in 1..Len(x.v) : x.v[i].t = "int"

IsTupleList(x) == x.t = "list" /\ \A i \in 1..Len(x.v) : x.v[i].t = "tuple"

\* C1: for every column name and every non-empty list of n scalars, in_column
\* returns "name IN ( :name_0, ..., :name_{n-1} )" and a map of exactly n
\* entries in which name_i holds values[i]; not_in_column does the same with
\* NOT IN.
C1_InColumnFragment ==
    (/\ Called
     /\ call.fn \in {"in_column", "not_in_column"}
     /\ IsScalarList(call.values)
     /\ Len(call.values.v) >= 1)
    => LET n == Len(call.values.v)
           names == IndexedNames(BindName(call.name), n)
           word == IF call.fn = "in_column" THEN <<" ", "I", "N", " ">>
                   ELSE <<" ", "N", "O", "T", " ", "I", "N", " ">>
       IN  /\ ret.exc = "none"
           /\ ret.query = call.name \o word \o Group(names)
           /\ ~ret.params_none
           /\ Cardinality(DOMAIN ret.params) = n
           /\ ret.params = ZipDict(names, call.values.v)

\* the groups of a VALUES fragment for rows of tuples: row r, column c is
\* named k_r_c
RowGroups(base, rows) ==
    [r \in 1..Len(rows) |->
        Group(IndexedNames(base \o <<"_">> \o Str(r - 1), Len(rows[r].v)))]

RECURSIVE CellDict(_, _, _)
CellDict(base, rows, r) ==
    IF r > Len(rows) THEN EmptyDict
    ELSE DictUpdate(ZipDict(IndexedNames(base \o <<"_">> \o Str(r - 1), Len(rows[r].v)),
                            rows[r].v),
                    CellDict(base, rows, r + 1))

\* C2: for every name, values(name, values) emits one parenthesized group per
\* input item: n scalars give n single-value groups "( :k_i )", n tuples of
\* width w give n groups of w placeholders k_row_col, and the map has exactly
\* one entry per scalar or per cell.
C2_ValuesGroups ==
    (/\ Called
     /\ call.fn = "values"
     /\ call.values.t = "list"
     /\ Len(call.values.v) >= 1)
    => LET n == Len(call.values.v)
           k == BindName(call.name)
           names == IndexedNames(k, n)
           word == <<"V", "A", "L", "U", "E", "S", " ">>
       IN  /\ ret.exc = "none"
           /\ ~ret.params_none
           /\ IsScalarList(call.values) =>
                 /\ ret.query = word \o Join(<<",", " ">>, [i \in 1..n |-> Group(<<names[i]>>)])
                 /\ ret.params = ZipDict(names, call.values.v)
           /\ IsTupleList(call.values) =>
                 /\ ret.query = word \o Join(<<",", " ">>, RowGroups(k, call.values.v))
                 /\ ret.params = CellDict(k, call.values.v, 1)

\* ------------------------------------------------------------------------
\* Properties of get_query_data (SpecQuery, SpecPad)
\* ------------------------------------------------------------------------
QueryCalled == Called /\ call.fn = "get_query_data"

\* the tokens of the text handed in, as the scanner finds them
Tokens == FindAll(call.data.query)

\* the template parameter of a token, Absent when the key has none
ParamOf(m) ==
    IF call.data.template_params.none \/ KeyOf(m) \notin DOMAIN call.data.template_params.d
    THEN Absent
    ELSE call.data.template_params.d[KeyOf(m)]

Literal == IF call.data.query_params.none THEN EmptyDict ELSE call.data.query_params.d

\* what the expander of a token returns for the token's parameter
Expansion(m) == ApplyTemplate(m.kind, m.table \o m.column, ParamOf(m), KeyOf(m))

Min(a, b) == IF a < b THEN a ELSE b

\* the text in which every token, with at most pad spaces on each side of
\* it, is replaced by a space, the token's fragment and a space
RECURSIVE SpliceFrom(_, _, _, _, _)
SpliceFrom(query, ms, i, pos, pad) ==
    IF i > Len(ms) THEN SubSeq(query, pos, Len(query))
    ELSE LET from == ms[i].open - Min(ms[i].open - ms[i].first, pad)
             to == ms[i].close + Min(ms[i].last - ms[i].close, pad)
         IN SubSeq(query, pos, from - 1) \o <<" ">> \o Expansion(ms[i]).query \o <<" ">>
            \o SpliceFrom(query, ms, i + 1, to + 1, pad)

Splice(pad) == SpliceFrom(call.data.query, Tokens, 1, 1, pad)

EmptyConstant(kind) ==
    IF kind = W_in THEN <<"1", " ", "<", ">", " ", "1">> ELSE <<"1", " ", "=", " ", "1">>

\* C3: an IN token whose parameter is an empty list expands to "1 <> 1", a
\* NOT IN token to "1 = 1"; the expander returns no parameter map,
\* get_query_data does not raise and nothing is added to the aggregate map.
\* Stated for the texts all of whose tokens are such tokens.
C3_EmptyListConstant ==
    (/\ QueryCalled
     /\ Len(Tokens) > 0
     /\ \A i \in 1..Len(Tokens) :
           Tokens[i].kind \in {W_in, W_not_in} /\ ParamOf(Tokens[i]) = PyList(<<>>))
    => /\ \A i \in 1..Len(Tokens) :
             Expansion(Tokens[i]) = ReturnedNoParams(EmptyConstant(Tokens[i].kind))
       /\ ret.exc = "none"
       /\ ret.query = Splice(Len(call.data.query))
       /\ ret.params = Literal

\* C4: a VALUES token whose parameter is missing, None or an empty list makes
\* get_query_data raise ListTemplateException; no fragment or map is returned.
C4_ValuesNeedsRows ==
    (/\ QueryCalled
     /\ \E i \in 1..Len(Tokens) :
           Tokens[i].kind = W_values /\ ParamOf(Tokens[i]) \in {Absent, PyNone, PyList(<<>>)})
    => /\ ret.exc = "ListTemplateException"
       /\ ret.query = <<>>
       /\ ret.params_none

MissingTokens == {i \in 1..Len(Tokens) : ParamOf(Tokens[i]) \in {Absent, PyNone}}

\* C5: when the text has two or more distinct tokens whose parameters are
\* missing, the one ListTemplateException raised names all of their keys.
C5_AllMissingKeysNamed ==
    (/\ QueryCalled
     /\ Cardinality({KeyOf(Tokens[i]) : i \in MissingTokens}) >= 2)
    => /\ ret.exc = "ListTemplateException"
       /\ \A i \in MissingTokens : KeyOf(Tokens[i]) \in SeqRange(ret.keys)

\* the number of list elements of a parameter, a tuple counting one per cell
RECURSIVE ElementsFrom(_, _)
ElementsFrom(xs, i) ==
    IF i > Len(xs) THEN 0
    ELSE (IF xs[i].t = "tuple" THEN Len(xs[i].v) ELSE 1) + ElementsFrom(xs, i + 1)

Elements(x) == IF x.t \in {"list", "tuple"} THEN ElementsFrom(x.v, 1) ELSE 0

\* the first occurrence of every token of the text
FirstOccurrences ==
    {i \in 1..Len(Tokens) : \A j \in 1..(i - 1) : KeyOf(Tokens[j]) # KeyOf(Tokens[i])}

RECURSIVE ElementsOver(_)
ElementsOver(I) ==
    IF I = {} THEN 0
    ELSE LET i == CHOOSE x \in I : TRUE
         IN Elements(ParamOf(Tokens[i])) + ElementsOver(I \ {i})

\* C7: generated bind-parameter names are unique within the expanded query:
\* the aggregate map holds one entry per list element of every token.
C7_UniqueBindNames ==
    (QueryCalled /\ ret.exc = "none" /\ call.data.query_params.none)
    => Cardinality(DOMAIN ret.params) = ElementsOver(FirstOccurrences)

Contains(s, p) == Find(s, 1, p) <= Len(s)

Lead(m) == m.open - m.first

Trail(m) == m.last - m.close

\* C9 as stated: at most one padding space on each side of a token is
\* captured with it and replaced, with the token, by a space, the fragment
\* and a space; every other character, further spaces next to the token
\* included, is unchanged.
C9_OnePaddingSpace ==
    (QueryCalled /\ ret.exc = "none") => ret.query = Splice(1)

\* no token of the text occurs twice
TokensDistinct ==
    \A i, j \in 1..Len(Tokens) : i # j => KeyOf(Tokens[i]) # KeyOf(Tokens[j])

\* a text with every run of spaces shortened to one space
RECURSIVE Squeeze(_)
Squeeze(s) ==
    IF Contains(s, <<" ", " ">>) THEN Squeeze(Replace(s, <<" ", " ">>, <<" ">>)) ELSE s

\* C9 amended: the whole run of spaces on each side of a token is captured
\* with it, and in a text where no token occurs twice each token with its
\* runs of spaces is replaced by a space, the fragment and a space, every
\* other character being unchanged; where a token occurs twice the text is
\* that one up to the length of its runs of spaces.
C9_WholePadding ==
    (QueryCalled /\ ret.exc = "none")
    => /\ TokensDistinct => ret.query = Splice(Len(call.data.query))
       /\ Squeeze(ret.query) = Squeeze(Splice(Len(call.data.query)))

\* a call that returned for a text with two or more spaces next to a token
C9_Witness ==
    /\ QueryCalled
    /\ ret.exc = "none"
    /\ TokensDistinct
    /\ \E i \in 1..Len(Tokens) : Lead(Tokens[i]) >= 2 \/ Trail(Tokens[i]) >= 2

\* the names the expanders generate for the tokens of the text
Generated == UNION {DOMAIN Expansion(Tokens[i]).params : i \in 1..Len(Tokens)}

\* the values the expanders generate for a name
GeneratedValues(k) ==
    {Expansion(Tokens[i]).params[k] :
        i \in {j \in 1..Len(Tokens) : k \in DOMAIN Expansion(Tokens[j]).params}}

\* C10 as stated: the literal map is merged after the generated maps, so a
\* literal parameter keeps its value when a generated parameter has its name.
C10_LiteralWins ==
    (QueryCalled /\ ret.exc = "none")
    => \A k \in DOMAIN Literal : k \in DOMAIN ret.params /\ ret.params[k] = Literal[k]

\* C10 amended: the literal map is put into the result first and the
\* generated maps are merged after it, so when a literal parameter and a
\* generated parameter share a name the generated value is the one present;
\* every other literal parameter keeps its value.
C10_GeneratedWins ==
    (QueryCalled /\ ret.exc = "none")
    => /\ DOMAIN ret.params = (DOMAIN Literal) \cup Generated
       /\ \A k \in Generated : ret.params[k] \in GeneratedValues(k)
       /\ \A k \in (DOMAIN Literal) \ Generated : ret.params[k] = Literal[k]

\* a call that returned with a literal parameter named like a generated one
C10_Witness ==
    /\ QueryCalled
    /\ ret.exc = "none"
    /\ \E k \in (DOMAIN Literal) \cap Generated : Literal[k] \notin GeneratedValues(k)

\* ------------------------------------------------------------------------
\* Properties of the decorated calls (Spec)
\* ------------------------------------------------------------------------
\* the decorated call is over and raised the template error
TemplateFailed == pc = "done" /\ ret.exc = "ListTemplateException"

IsExecute(e) == e.ev = "execute"

\* the statements executed on the connection, in order
Executed == SelectSeq(log, IsExecute)

Happened(ev) == \E i \in 1..Len(log) : log[i].ev = ev

\* C6 as stated: when a QueryData of a decorated function fails the token
\* validation, the call raises and no statement at all has been executed on
\* the connection during the call.
C6_NothingExecuted == TemplateFailed => Executed = <<>>

\* the statements of the QueryData handled before the one that failed
EarlierStatements ==
    [i \in 1..yielded |->
        LET r == get_query_data(call.datas[i])
        IN Event("execute", StatementOf(call.fn, r.query), r.params)]

\* C6 amended: when a QueryData of a decorated function fails the token
\* validation, the call raises and the text of that QueryData is never
\* executed, nor anything after it: what has been executed is SET
\* FOREIGN_KEY_CHECKS=0 when sqlupdate disables the checks, then the
\* statements of the QueryData the generator yielded before, and nothing for
\* sqlquery, sqlexists and a sqlupdate function that returns without
\* disabling the checks; a transaction is rolled back and never committed.
C6_FailingQueryNotExecuted ==
    TemplateFailed
    => /\ yielded < Len(call.datas)
       /\ get_query_data(call.datas[yielded + 1]).exc = "ListTemplateException"
       /\ Executed = (IF call.fk THEN <<Event("execute", FK_CHECKS_0, EmptyDict)>> ELSE <<>>)
                     \o EarlierStatements
       /\ (~call.generator /\ ~call.fk) => Executed = <<>>
       /\ ~Happened("commit")
       /\ Transaction => Happened("rollback")
       /\ log[Len(log)] = Did("exit")

\* a generator-style sqlupdate that disabled the checks, executed a yielded
\* statement and then failed the validation of a later QueryData
C6_Witness ==
    /\ TemplateFailed
    /\ call.generator
    /\ call.fk
    /\ yielded >= 1

\* the decorated call is over and the next value of the function, which the
\* call reached, is not a QueryData
ShapeFailed ==
    /\ pc = "done"
    /\ yielded < Len(call.datas)
    /\ ~call.datas[yielded + 1].is_query_data
    /\ ret.exc \notin {"DBNotPreparedError", "DatabaseError"}

\* C11: a value that is not a QueryData makes get_query_data raise
\* QueryDataError before the text is scanned for tokens, and the decorated
\* call raises that error without executing the value as a statement: what
\* has been executed is what was executed before the value was reached.
C11_ShapeErrorFirst ==
    ShapeFailed
    => /\ ret = Raised("QueryDataError", <<>>)
       /\ Executed = (IF call.fk THEN <<Event("execute", FK_CHECKS_0, EmptyDict)>> ELSE <<>>)
                     \o EarlierStatements
       /\ \A i \in 1..Len(Executed) :
             Executed[i].query # StatementOf(call.fn, call.datas[yielded + 1].query)
       /\ ~Happened("commit")

\* a sqlquery and a sqlupdate whose function returned a str
C11_Witness ==
    /\ ShapeFailed
    /\ ~call.generator
    /\ call.fn \in {"sqlquery", "sqlupdate"}

\* Properties of the mappers (SpecMapper)

\* the combining mapper has answered the call
Combined == call.fn = "RecordCombiningMapper" /\ ret # NotCalled

\* the rows of the call at which an id occurs for the first time
FirstOfId ==
    {i \in 1..Len(call.records) :
        /\ HasColumn(call.records[i], "id")
        /\ \A j \in 1..(i - 1) : HasColumn(call.records[j], "id")
              => RowGet(call.records[j], "id") # RowGet(call.records[i], "id")}

\* the rows of the call without an id
Idless == {i \in 1..Len(call.records) : ~HasColumn(call.records[i], "id")}

\* the instance got from inst by mapping onto it, in arrival order, the rows
\* records[i..] that carry the id key
RECURSIVE MergedFrom(_, _, _, _, _)
MergedFrom(rm, inst, records, key, i) ==
    IF i > Len(records) THEN inst
    ELSE IF HasColumn(records[i], "id") /\ RowGet(records[i], "id") = key
    THEN MergedFrom(rm, map_record(rm, inst, records[i]), records, key, i + 1)
    ELSE MergedFrom(rm, inst, records, key, i + 1)

\* a row as a dict
RowDict(row) == [c \in Columns(row) |-> RowGet(row, c)]

\* an element of the list the combining mapper returned, as a dict
Raw(x) == IF call.record_mapper.cls = "none" THEN RowDict(x) ELSE x

\* the record type the records of the call are built with: rows returned as
\* they are count as records of the default type
RecordTypeOfCall ==
    IF call.record_mapper.cls = "none" THEN DbMapResult ELSE call.record_mapper

\* one record per distinct id, in the order of the first occurrences, each
\* built from the rows of its id
OnePerId ==
    /\ Len(ret.value) = Cardinality(FirstOfId)
    /\ Len(ret.value) <= Len(call.records)
    /\ \A i \in FirstOfId :
          Raw(ret.value[Cardinality({j \in FirstOfId : j <= i})])
          = MergedFrom(RecordTypeOfCall, create_instance(RecordTypeOfCall), call.records,
                       RowGet(call.records[i], "id"), 1).d

IdOfRecord(d) == IF "id" \in DOMAIN d THEN d["id"] ELSE PyNone

\* C13: a row without an id is never merged with another row and never
\* replaces a record: the combining mapper returns one record for every
\* distinct id and one for every row without an id, the record of such a
\* row is built from that row alone, the records of such rows keep the
\* arrival order, and the record of every id is in the result.
C13_IdlessRowsStandAlone ==
    (Combined /\ ret.exc = "none" /\ call.record_mapper.cls # "none")
    => /\ Len(ret.value) = Cardinality(FirstOfId) + Cardinality(Idless)
       /\ \A i \in FirstOfId :
             \E j \in 1..Len(ret.value) : IdOfRecord(ret.value[j]) = RowGet(call.records[i], "id")
       /\ \A i \in Idless :
             \E j \in 1..Len(ret.value) :
                /\ ret.value[j] = map_record(call.record_mapper,
                                             create_instance(call.record_mapper),
                                             call.records[i]).d
                /\ Cardinality({k \in 1..(j - 1) : IdOfRecord(ret.value[k]) = PyNone})
                   = Cardinality({k \in Idless : k < i})

\* the columns a record type aggregates or folds into a dict
Aggregated(rm) ==
    rm.list_fields \cup rm.set_fields \cup DOMAIN rm.dict_key_fields
    \cup Range(rm.dict_value_mappings)

\* row k carries the id of row i
SameId(i, k) ==
    /\ HasColumn(call.records[k], "id")
    /\ RowGet(call.records[k], "id") = RowGet(call.records[i], "id")

\* the record of the id that occurs first at row i
RecordOf(i) == ret.value[Cardinality({j \in FirstOfId : j <= i})]

\* C14: when several rows share an id, a plain field of the combined record
\* has the value of the first of these rows that carries it, whatever later
\* rows of that id carry, for DbMapResult and for DbMapResultModel.
C14_PlainFieldKeepsFirstValue ==
    (Combined /\ ret.exc = "none" /\ Idless = {} /\ call.record_mapper.cls # "none")
    => \A i \in FirstOfId : \A k \in 1..Len(call.records) :
          \A c \in (Columns(call.records[k]) \cap DOMAIN RecordOf(i))
                   \ Aggregated(call.record_mapper) :
             (/\ SameId(i, k)
              /\ \A j \in 1..(k - 1) : SameId(i, j) => ~HasColumn(call.records[j], c))
             => RecordOf(i)[c] = RowGet(call.records[k], c)

\* the values that are not null of column f in the rows records[k..] that
\* carry the id of row i, in arrival order
RECURSIVE ValuesOf(_, _, _)
ValuesOf(i, f, k) ==
    IF k > Len(call.records) THEN <<>>
    ELSE IF SameId(i, k) /\ HasColumn(call.records[k], f)
            /\ RowGet(call.records[k], f) # PyNone
    THEN <<RowGet(call.records[k], f)>> \o ValuesOf(i, f, k + 1)
    ELSE ValuesOf(i, f, k + 1)

\* C15: in a DbMapResultModel combined from the rows of one id, a list
\* field is the list of the values of its column that are not null, in
\* arrival order and with duplicates, and a set field is the set of the
\* values of its column that are not null: a null adds nothing, in the
\* first row or in a later one.
C15_ListAndSetFields ==
    (Combined /\ ret.exc = "none" /\ Idless = {} /\ call.record_mapper.cls # "none")
    => \A i \in FirstOfId :
          /\ \A f \in call.record_mapper.list_fields :
                RecordOf(i)[f] = PyList(ValuesOf(i, f, 1))
          /\ \A f \in call.record_mapper.set_fields :
                RecordOf(i)[f] = PySet(Range(ValuesOf(i, f, 1)))

\* three rows of one id were combined: the first has a null in the list
\* column, the other two the same value
C15_Witness ==
    /\ Combined
    /\ ret.exc = "none"
    /\ call.record_mapper = DefaultListCombiningDbModel
    /\ Len(call.records) = 3
    /\ FirstOfId = {1}
    /\ \A k \in 1..3 : HasColumn(call.records[k], "list1")
    /\ RowGet(call.records[1], "list1") = PyNone
    /\ RowGet(call.records[2], "list1") = RowGet(call.records[3], "list1")
    /\ Len(ret.value[1]["list1"].v) = 2

\* the rows that carry the id of row i, the key column kf and, when
\* nonnull is set, a value that is not null in the value column vf
PairRowsOf(i, kf, vf, nonnull) ==
    {k \in 1..Len(call.records) :
        /\ SameId(i, k)
        /\ HasColumn(call.records[k], kf)
        /\ HasColumn(call.records[k], vf)
        /\ nonnull => RowGet(call.records[k], vf) # PyNone}

\* the dict field of the record of the id of row i holds, for every row of
\* rows, the value of the last row of rows that has the same key, and no
\* other key; the value column is no field of the record
DictFieldFoldsRows(i, kf, vf, rows) ==
    /\ DOMAIN RecordOf(i)[call.record_mapper.dict_key_fields[kf]].v
       = {RowGet(call.records[k], kf) : k \in rows}
    /\ \A k \in rows :
          (\A j \in rows : j > k => RowGet(call.records[j], kf) # RowGet(call.records[k], kf))
          => RecordOf(i)[call.record_mapper.dict_key_fields[kf]].v[RowGet(call.records[k], kf)]
             = RowGet(call.records[k], vf)
    /\ vf \notin DOMAIN RecordOf(i)

\* C16 as stated: every row with a key column puts the pair of its key and
\* its value into the dict field, and the value column is never a field of
\* the record.
C16_EveryRowGivesAPair ==
    (Combined /\ ret.exc = "none" /\ Idless = {} /\ call.record_mapper.cls # "none")
    => \A i \in FirstOfId : \A kf \in DOMAIN call.record_mapper.dict_key_fields :
          \E vf \in {call.record_mapper.dict_value_mappings[call.record_mapper.dict_key_fields[kf]]} :
             DictFieldFoldsRows(i, kf, vf, PairRowsOf(i, kf, vf, FALSE))

\* C16: every row with a key column whose value column is not null puts
\* the pair of its key and its value into the dict field, a row whose value
\* is null puts nothing, and the value column is never a field of the
\* record, after the first row and after every later row (every prefix of
\* a row sequence is a row sequence of the model).
C16_RowsWithAValueGiveAPair ==
    (Combined /\ ret.exc = "none" /\ Idless = {} /\ call.record_mapper.cls # "none")
    => \A i \in FirstOfId : \A kf \in DOMAIN call.record_mapper.dict_key_fields :
          \E vf \in {call.record_mapper.dict_value_mappings[call.record_mapper.dict_key_fields[kf]]} :
             DictFieldFoldsRows(i, kf, vf, PairRowsOf(i, kf, vf, TRUE))

\* three rows of one id were combined: the first and the third have the
\* same key and different values, the second has a null value
C16_Witness ==
    /\ Combined
    /\ ret.exc = "none"
    /\ call.record_mapper = DefaultListCombiningDbModel
    /\ FirstOfId = {1}
    /\ PairRowsOf(1, "key1", "val1", FALSE) = {1, 2, 3}
    /\ PairRowsOf(1, "key1", "val1", TRUE) = {1, 3}
    /\ RowGet(call.records[1], "key1") = RowGet(call.records[3], "key1")
    /\ RowGet(call.records[1], "val1") # RowGet(call.records[3], "val1")
    /\ ret.value[1]["dict1"] = PyDict(OneEntry(RowGet(call.records[3], "key1"),
                                               RowGet(call.records[3], "val1")))

\* the values of the key columns of the record type in row k
KeyValuesOf(k) ==
    [n \in 1..Len(get_key_columns(call.record_mapper)) |->
        RowGet(call.records[k], get_key_columns(call.record_mapper)[n])]

\* the rows at which a tuple of key values occurs for the first time
FirstOfKey ==
    {i \in 1..Len(call.records) : \A j \in 1..(i - 1) : KeyValuesOf(j) # KeyValuesOf(i)}

\* the values of column f in the rows records[k..] that have the key
\* values of row i, in arrival order
RECURSIVE ValuesOfKey(_, _, _)
ValuesOfKey(i, f, k) ==
    IF k > Len(call.records) THEN <<>>
    ELSE IF KeyValuesOf(k) = KeyValuesOf(i)
    THEN <<RowGet(call.records[k], f)>> \o ValuesOfKey(i, f, k + 1)
    ELSE ValuesOfKey(i, f, k + 1)

\* C17: for a record type that declares the key columns a and b, the
\* combining mapper returns one record for every distinct pair of values
\* of a and b, in the order of the first occurrences of the pairs, and the
\* record of a pair is merged from the rows that have it.
C17_CompositeKeyGroups ==
    (Combined /\ ret.exc = "none" /\ call.record_mapper.cls = "MultiKeyModel")
    => /\ Len(ret.value) = Cardinality(FirstOfKey)
       /\ \A i \in FirstOfKey :
             \E r \in {Cardinality({j \in FirstOfKey : j <= i})} :
                /\ ret.value[r]["a"] = RowGet(call.records[i], "a")
                /\ ret.value[r]["b"] = RowGet(call.records[i], "b")
                /\ ret.value[r]["c"] = PyList(ValuesOfKey(i, "c", 1))

\* the single-row mapper has answered the call
MappedSingleRow == call.fn = "SingleRowMapper" /\ ret # NotCalled

\* what the combining mapper makes of the first row of the call alone
FirstRowAlone ==
    RecordCombiningMapper_map_records(call.record_mapper, <<call.records[1]>>)

\* C18: the single-row mapper pulls at most one row from the row source;
\* it returns None for an empty source, and otherwise the record built from
\* the first row alone (the row itself without a record type), or the error
\* of mapping that row, whatever rows follow.
C18_ReadsAtMostOneRow ==
    MappedSingleRow
    => /\ ret.fetched <= 1
       /\ Len(call.records) = 0 => ret = MapperReturned(PyNone, 0)
       /\ Len(call.records) > 0
          => /\ ret.fetched = 1
             /\ ret.exc = FirstRowAlone.exc
             /\ ret.exc = "none" => ret.value = FirstRowAlone.value[1]

\* the single-row mapper answered for two rows of one id that differ in a
C18_Witness ==
    /\ MappedSingleRow
    /\ call.record_mapper = DbMapResult
    /\ Len(call.records) = 2
    /\ Idless = {}
    /\ FirstOfId = {1}
    /\ HasColumn(call.records[1], "a") /\ HasColumn(call.records[2], "a")
    /\ RowGet(call.records[1], "a") # RowGet(call.records[2], "a")
    /\ ret.value["a"] = RowGet(call.records[1], "a")

\* the key-value mapper has returned a map
MappedKeyValue == call.fn = "KeyValueMapper" /\ pc = "done" /\ ret.exc = "none"

\* the values of the value column in the rows records[k..] whose key
\* column holds key, in arrival order
RECURSIVE ValuesUnder(_, _)
ValuesUnder(key, k) ==
    IF k > Len(call.records) THEN <<>>
    ELSE IF RowAt(call.records[k], call.key_column) = key
    THEN <<RowAt(call.records[k], call.value_column)>> \o ValuesUnder(key, k + 1)
    ELSE ValuesUnder(key, k + 1)

\* C19: the map the key-value mapper returns has the values of the key
\* column as its keys; with has_multiple_values_per_key a key maps to the
\* list of the values of its rows in row order, as long as the number of
\* its rows, and without it to the value of its last row.
C19_KeyValueMap ==
    MappedKeyValue
    => /\ DOMAIN ret.value
          = {RowAt(call.records[i], call.key_column) : i \in 1..Len(call.records)}
       /\ \A key \in DOMAIN ret.value :
             IF call.has_multiple_values_per_key
             THEN /\ ret.value[key] = PyList(ValuesUnder(key, 1))
                  /\ Len(ret.value[key].v)
                     = Cardinality({i \in 1..Len(call.records) :
                                       RowAt(call.records[i], call.key_column) = key})
             ELSE ret.value[key] = ValuesUnder(key, 1)[Len(ValuesUnder(key, 1))]

\* three rows with the keys a, a, b and two different values under a were
\* mapped by position with has_multiple_values_per_key
C19_Witness ==
    /\ MappedKeyValue
    /\ call.has_multiple_values_per_key
    /\ call.key_column = PyInt(0) /\ call.value_column = PyInt(1)
    /\ Len(call.records) = 3
    /\ RowAt(call.records[1], PyInt(0)) = RowAt(call.records[2], PyInt(0))
    /\ RowAt(call.records[1], PyInt(0)) # RowAt(call.records[3], PyInt(0))
    /\ RowAt(call.records[1], PyInt(1)) # RowAt(call.records[2], PyInt(1))
    /\ Cardinality(DOMAIN ret.value) = 2

\* the place in the row of the cell record[column]
PositionOf(record, column) ==
    IF column.t = "int" THEN column.v + 1
    ELSE CHOOSE i \in 1..Len(record) : record[i].c = column.v

\* C20: no key-value mapper is constructed whose key and value come from
\* the same column of the rows, whether the two designators are equal or
\* are a position and a name of one column: the constructor raises
\* MapperError instead.
C20_SameColumnRejected ==
    (call.fn = "KeyValueMapper" /\ pc = "constructed")
    => \A i \in 1..Len(call.records) :
          (Designates(call.records[i], call.key_column)
           /\ Designates(call.records[i], call.value_column))
          => PositionOf(call.records[i], call.key_column)
             # PositionOf(call.records[i], call.value_column)

\* ------------------------------------------------------------------------
\* Properties of interleaved invocations (SpecInterleaved)
\* ------------------------------------------------------------------------
\* what the invocation t returns or raises when it runs alone
Alone(t) ==
    IF call.kind = "RecordCombiningMapper"
    THEN RecordCombiningMapper_map_records(call.mapper.record_mapper, call.inputs[t])
    ELSE IF call.kind = "KeyValueMapper"
    THEN KeyValueMapper_map_records(call.mapper, call.inputs[t])
    ELSE get_query_data(call.inputs[t])

\* C21: two invocations of get_query_data, or of map_records of one shared
\* mapper instance, interleaved in any order each end with the result they
\* have when run alone: the locals of an invocation are its own.
C21_SameResultAsAlone ==
    \A t \in 1..2 : pc[t] = "done" => ret[t] = Alone(t)

\* two combining invocations on different rows of one id have both ended,
\* each after the other had begun
C21_Witness ==
    /\ call.kind = "RecordCombiningMapper"
    /\ call.mapper.record_mapper = DbMapResult
    /\ pc = <<"done", "done">>
    /\ Len(call.inputs[1]) = 2 /\ Len(call.inputs[2]) = 2
    /\ call.inputs[1] # call.inputs[2]
    /\ ret[1] # ret[2]
    /\ ret[1].exc = "none" /\ ret[2].exc = "none"

\* ------------------------------------------------------------------------
\* Properties of get_query_data on objects (SpecFrame)
\* ------------------------------------------------------------------------
\* C22: get_query_data never changes the QueryData it is given (query,
\* query_params, template_params), whether it returns or raises, and the
\* map it returns is a new one: it holds what was returned, and a caller
\* writing to it leaves query_params as it was.
C22_QueryDataUnchanged ==
    /\ log.data = call.data
    /\ (pc = "returned" /\ ret.result.exc = "none") =>
          /\ MapOf(log, ret.map).d = ret.result.params
          /\ ret.map # "query_params"

\* a call with a literal map and a generated map has returned, and the
\* caller has written to the returned map
C22_Witness ==
    /\ pc = "used"
    /\ ~call.data.query_params.none
    /\ ret.result.params # call.data.query_params.d
    /\ MapOf(log, ret.map).d # ret.result.params

\* ------------------------------------------------------------------------
\* Properties of the transaction and the connection of a decorated call (Spec)
\* ------------------------------------------------------------------------
\* the number of times ev was done on the connection in lg
Times(lg, ev) == Cardinality({i \in 1..Len(lg) : lg[i].ev = ev})

\* every statement executed so far was executed after the begin
BegunBeforeStatements ==
    \A i \in 1..Len(log) : IsExecute(log[i]) => \E j \in 1..(i - 1) : log[j].ev = "begin"

\* C23: for every sqlupdate call the transaction is begun before the first
\* statement is executed; when the function and all its statements end
\* without error, commit is called exactly once and rollback never; when
\* the function or a statement raises, rollback is called and commit never;
\* in both cases the __exit__ of the connection is called after the commit
\* or rollback.
C23_TransactionThenRelease ==
    /\ [](Transaction => BegunBeforeStatements)
    /\ [][(Transaction /\ pc = "exit") =>
             /\ Times(log', "commit") = (IF ret.exc = "pending" THEN 1 ELSE 0)
             /\ Times(log', "rollback") = (IF ret.exc = "pending" THEN 0 ELSE 1)
             /\ Len(log') >= 2
             /\ log'[Len(log')] = Did("exit")
             /\ log'[Len(log') - 1].ev \in {"commit", "rollback"}]_vars

\* the call is over and SET FOREIGN_KEY_CHECKS=0 was executed and did not
\* itself fail
ChecksDisabled ==
    /\ pc = "done"
    /\ call.fk
    /\ Executed # <<>>
    /\ ~(Len(Executed) = 1 /\ ret.exc = "DatabaseError")

\* the place in the log of the last statement executed
LastExecuted == CHOOSE i \in 1..Len(log) : IsExecute(log[i]) /\ \A j \in (i + 1)..Len(log) : ~IsExecute(log[j])

\* C24: with sqlupdate(disable_foreign_key_checks=True), SET
\* FOREIGN_KEY_CHECKS=0 is the first statement executed and SET
\* FOREIGN_KEY_CHECKS=1 the last, also when the transaction rolls back: on
\* every run where the checks were disabled they are enabled again on the
\* connection before its __exit__.
C24_ChecksEnabledAgain ==
    ChecksDisabled
    => /\ Executed[1] = Event("execute", FK_CHECKS_0, EmptyDict)
       /\ Len(Executed) >= 2
       /\ Executed[Len(Executed)] = Event("execute", FK_CHECKS_1, EmptyDict)
       /\ \A i \in 1..Len(log) : log[i] = Did("exit") => LastExecuted < i

\* a text that is an exists query already, in one of the two forms
IsExistsQuery(q) == StartsWith(q, SelectExists) \/ StartsWith(q, SelectOneWhereExists)

\* the statement C25 has sqlexists execute for the text query
UnnestedExists(query) ==
    IF IsExistsQuery(LStrip(query)) THEN LStrip(query)
    ELSE SelectExists \o <<" ", "(", " ">> \o LStrip(query) \o <<" ", ")">>

\* a sqlexists call has executed its statement
ExistsExecuted == call.fn = "sqlexists" /\ Executed # <<>>

\* C25: sqlexists never nests exists wrappers: a returned query that, after
\* its leading whitespace is trimmed, is an exists query already (SELECT
\* EXISTS ( ... ) or SELECT 1 WHERE EXISTS ( ... )) is executed without a
\* further wrapper, any other query is executed as an exists query around
\* it, and the call returns True exactly when the scalar result equals 1.
C25_ExistsNotNested ==
    ExistsExecuted
    => /\ Executed = <<Event("execute", UnnestedExists(get_query_data(call.datas[1]).query),
                             get_query_data(call.datas[1]).params)>>
       /\ (pc = "done" /\ ret.exc = "none")
             => (ret = ExistsResult(PyInt(1)) <=> ScalarOf(log) = PyInt(1))

\* the rows read from the cursor were all read before the __exit__ of the
\* connection
ReadBeforeExit ==
    \A i \in 1..Len(log) : log[i].ev = "fetch" => \A j \in 1..(i - 1) : log[j].ev # "exit"

\* C28: in a sqlquery call every read of a row from the cursor happens
\* before the connection is released, for every mapper configuration,
\* RecordCombiningMapper(record_mapper=None) and
\* SingleRowMapper(record_mapper=None) included: the value the caller gets
\* needs no read from the cursor after the __exit__ of the connection.
C28_RowsReadInScope == call.fn = "sqlquery" => ReadBeforeExit

\* ------------------------------------------------------------------------
\* Properties of get_query_data on every token the pattern matches (SpecQuery)
\* ------------------------------------------------------------------------
\* C27: every token the pattern of the scanner matches, a column that holds
\* a double underscore such as {in__a__b} included, whose template
\* parameter is present and not empty is expanded by get_query_data without
\* an error.
C27_MatchedTokensExpand ==
    (/\ QueryCalled
     /\ Len(Tokens) > 0
     /\ \A i \in 1..Len(Tokens) : ParamOf(Tokens[i]) \notin {Absent, PyNone, PyList(<<>>)})
    => ret.exc = "none"

\* ------------------------------------------------------------------------
\* Properties of the container of databases (SpecDatabases)
\* ------------------------------------------------------------------------
\* the names the lookups so far were for
LookedUp == {r.database : r \in log.returned}

\* C26: after any sequence of lookups, set_current_database and
\* reset_current_database calls, the container holds exactly one Database
\* for every name looked up and none for another, create_engine was called
\* exactly once for every such name, a lookup of a name looked up before
\* gives the same Database and engine, and the name looked up is the
\* current database of the context when that is set and not empty, else
\* the default database.
C26_OneDatabasePerName ==
    /\ {n \in DatabaseNames : log.container[n].id # 0} = LookedUp
    /\ \A n \in DatabaseNames : log.container[n].id # 0 => log.container[n].id <= log.made
    /\ log.made = Cardinality(LookedUp)
    /\ \A n \in LookedUp :
          Cardinality({i \in 1..Len(log.created) : log.created[i] = n}) = 1
    /\ Len(log.created) = Cardinality(LookedUp)
    /\ \A r1, r2 \in log.returned : r1.database = r2.database => r1 = r2
    /\ (call.fn = "current_database" /\ ret.exc = "none")
          => /\ ret.database = (IF pc # "" THEN pc ELSE log.params)
             /\ ret.id # 0 /\ ret.engine # 0

\* the default database was looked up, then another one as the current
\* database, then the default one again after a reset
C26_Witness ==
    /\ call.fn = "current_database"
    /\ yielded = 5
    /\ pc = ""
    /\ ret.database = "test"
    /\ log.created = <<"test", "db1">>

\* ------------------------------------------------------------------------
\* Properties of the configuration calls (SpecConfigure)
\* ------------------------------------------------------------------------
\* C29: a call of set_database_parameters or
\* set_default_connection_parameters in which host, user, password or
\* database is None or empty raises DBNotPreparedError for the first of
\* them that is missing, in that order, and leaves DEFAULT_DATABASE,
\* DATABASES and _DEFAULT_CONNECTION_PARAMS as they were before the call.
C29_FailedCallChangesNothing ==
    [][(\E f \in {"host", "user", "password", "database"} :
           call'[f] \in Unset)
       => /\ ret'.exc = "DBNotPreparedError"
          /\ ret'.field = FirstMissing(call')
          /\ log' = log]_vars

\* ------------------------------------------------------------------------
\* Properties of the concurrent first use of a database (SpecRace)
\* ------------------------------------------------------------------------
\* C30: when two threads use one database name for the first time at once,
\* at most one engine is created for the name and the threads end up using
\* the same Database and the same engine: no interleaving of
\* DatabaseContainer.__getitem__, Database.engine or _init_database calls
\* create_engine twice or replaces a Database or an engine that another
\* thread has got already.
C30_OneEngineForAll ==
    /\ log.created <= 1
    /\ log.made <= 1
    /\ \A t, u \in Threads : (pc[t] = "done" /\ pc[u] = "done") => ret[t] = ret[u]

====
